---- MODULE Spec2Model ----
(***************************************************************************)
(* A model of the retrieval / prompt-assembly core of the portfolio        *)
(* backend (src/server/index.js): the text chunker, the profile store and  *)
(* resolver, the keyword retriever, the prompt assembler, and the          *)
(* process-wide snapshot that initRAG rebuilds while requests read it.     *)
(*                                                                         *)
(* JavaScript strings are modelled as sequences of one-character strings,  *)
(* so that split, trim, toLowerCase, includes and the \b regular           *)
(* expression are computed character by character.                         *)
(***************************************************************************)
EXTENDS Integers, Sequences, FiniteSets, TLC

VARIABLES
    LEGACY_PROFILE,             \* index.js:127
    PROFILES,                   \* index.js:128
    KNOWLEDGE_CHUNKS,           \* index.js:130
    KNOWLEDGE_LAST_LOADED_AT,   \* index.js:131
    disk,                       \* the files under /server: profile.json, profiles.json, knowledge/
    clock,                      \* the time new Date() returns
    listening,                  \* whether the startup load is over (setInterval and app.listen have run)
    reloads,                    \* the invocations of initRAG: position and local variables of each
    chats,                      \* the POST /api/chat requests: position and local variables of each
    loadedBy,                   \* history: the invocation of initRAG that assigned each global
    call,                       \* the function call under examination: its name, arguments and position
    ret,                        \* the value that call returned
    conversationHistory,        \* chatbot.js:69
    lastBotMessage,             \* chatbot.js:70
    isCollectingMeetingInfo,    \* chatbot.js:71
    meetingData,                \* chatbot.js:72
    fetches,                    \* the browser's fetch calls that have not settled yet, oldest first
    sends                       \* how many times sendMessage has run

vars == <<LEGACY_PROFILE, PROFILES, KNOWLEDGE_CHUNKS, KNOWLEDGE_LAST_LOADED_AT,
          disk, clock, listening, reloads, chats, loadedBy, call, ret,
          conversationHistory, lastBotMessage, isCollectingMeetingInfo, meetingData,
          fetches, sends>>

(***************************************************************************)
(* Characters and strings                                                  *)
(***************************************************************************)

UpperLetters == <<"A","B","C","D","E","F","G","H","I","J","K","L","M",
                  "N","O","P","Q","R","S","T","U","V","W","X","Y","Z">>

LowerLetters == <<"a","b","c","d","e","f","g","h","i","j","k","l","m",
                  "n","o","p","q","r","s","t","u","v","w","x","y","z">>

DigitChars == {"0","1","2","3","4","5","6","7","8","9"}

\* \s of a regular expression and the characters String.prototype.trim removes
WhitespaceChars == {" ", "\n", "\t", "\r"}

Range(s) == {s[i] : i \in DOMAIN s}

\* \w of a regular expression: [A-Za-z0-9_]
WordChars == Range(UpperLetters) \cup Range(LowerLetters) \cup DigitChars \cup {"_"}

IsWordChar(c) == c \in WordChars

\* the lowercase letter of each uppercase letter
LowerOf ==
    [c \in Range(UpperLetters) |->
        LowerLetters[CHOOSE i \in DOMAIN UpperLetters : UpperLetters[i] = c]]

LowerChar(c) == IF c \in DOMAIN LowerOf THEN LowerOf[c] ELSE c

\* String.prototype.toLowerCase
toLowerCase(s) == [i \in DOMAIN s |-> LowerChar(s[i])]

\* String.prototype.trim
trim(s) ==
    LET keep == {i \in DOMAIN s : s[i] \notin WhitespaceChars}
    IN  IF keep = {} THEN <<>>
        ELSE LET lo == CHOOSE i \in keep : \A j \in keep : i <= j
                 hi == CHOOSE i \in keep : \A j \in keep : j <= i
             IN  SubSeq(s, lo, hi)

\* whether sub occurs in s starting at position i (1-based)
OccursAt(s, sub, i) ==
    /\ i >= 1
    /\ i + Len(sub) - 1 <= Len(s)
    /\ \A j \in 1..Len(sub) : s[i + j - 1] = sub[j]

\* String.prototype.includes
includes(s, sub) == \E i \in 1..(Len(s) + 1) : OccursAt(s, sub, i)

RECURSIVE Concat(_)
\* the concatenation of a sequence of strings
Concat(ss) == IF ss = <<>> THEN <<>> ELSE Head(ss) \o Concat(Tail(ss))

RECURSIVE join(_, _)
\* Array.prototype.join
join(ss, sep) ==
    IF ss = <<>> THEN <<>>
    ELSE IF Len(ss) = 1 THEN ss[1]
    ELSE ss[1] \o sep \o join(Tail(ss), sep)

RECURSIVE dropEmpty(_)
\* Array.prototype.filter(Boolean) on an array of strings
dropEmpty(ss) ==
    IF ss = <<>> THEN <<>>
    ELSE IF Head(ss) # <<>> THEN <<Head(ss)>> \o dropEmpty(Tail(ss))
    ELSE dropEmpty(Tail(ss))

\* all strings over alphabet of length at most n
StringsUpTo(alphabet, n) == UNION {[1..k -> alphabet] : k \in 0..n}

(***************************************************************************)
(* Text chunker (index.js:133-152)                                         *)
(***************************************************************************)

NL == "\n"

BlankLine == <<NL, NL>>

RECURSIVE newlineRun(_, _)
\* the length of the run of newlines of text that starts at position i
newlineRun(text, i) ==
    IF i <= Len(text) /\ text[i] = NL THEN 1 + newlineRun(text, i + 1) ELSE 0

RECURSIVE splitBlankLines(_, _, _, _)
\* text.split(/\n{2,}/g): the pieces between the maximal runs of two or more
\* newlines, empty pieces included
splitBlankLines(text, i, cur, acc) ==
    IF i > Len(text) THEN Append(acc, cur)
    ELSE IF newlineRun(text, i) >= 2
         THEN splitBlankLines(text, i + newlineRun(text, i), <<>>, Append(acc, cur))
         ELSE splitBlankLines(text, i + 1, Append(cur, text[i]), acc)

\* const parts = text.split(/\n{2,}/g).map((s) => s.trim()).filter(Boolean)
chunkParts(text) ==
    LET pieces == splitBlankLines(text, 1, <<>>, <<>>)
        trimmed == [i \in DOMAIN pieces |-> trim(pieces[i])]
    IN  dropEmpty(trimmed)

\* a plausible slip: the cap is tested without the separator and the buffer
chunkStep_capOnParagraphOnly(st, p, maxLen) ==
    IF Len(p) > maxLen
    THEN [chunks |-> IF st.buf # <<>> THEN Append(st.chunks, st.buf) ELSE st.chunks,
          buf |-> p]
    ELSE [chunks |-> st.chunks,
          buf |-> IF st.buf # <<>> THEN st.buf \o BlankLine \o p ELSE p]

\* a plausible slip: the paragraph that overflows the buffer is not kept
chunkStep_dropsOverflow(st, p, maxLen) ==
    IF Len(st.buf \o BlankLine \o p) > maxLen
    THEN [chunks |-> IF st.buf # <<>> THEN Append(st.chunks, st.buf) ELSE st.chunks,
          buf |-> IF st.buf # <<>> THEN <<>> ELSE p]
    ELSE [chunks |-> st.chunks,
          buf |-> IF st.buf # <<>> THEN st.buf \o BlankLine \o p ELSE p]

\* the body of the loop "for (const p of parts)"
chunkStep(st, p, maxLen) ==
    IF Len(st.buf \o BlankLine \o p) > maxLen
    THEN [chunks |-> IF st.buf # <<>> THEN Append(st.chunks, st.buf) ELSE st.chunks,
          buf |-> p]
    ELSE [chunks |-> st.chunks,
          buf |-> IF st.buf # <<>> THEN st.buf \o BlankLine \o p ELSE p]

RECURSIVE chunkLoop(_, _, _)
chunkLoop(st, parts, maxLen) ==
    IF parts = <<>> THEN st
    ELSE chunkLoop(chunkStep(st, Head(parts), maxLen), Tail(parts), maxLen)

chunkText(text, maxLen) ==
    LET st == chunkLoop([chunks |-> <<>>, buf |-> <<>>], chunkParts(text), maxLen)
    IN  IF st.buf # <<>> THEN Append(st.chunks, st.buf) ELSE st.chunks

(***************************************************************************)
(***************************************************************************)
(* Term matching (index.js:232-247)                                        *)
(***************************************************************************)

\* String(id || "").trim().toLowerCase(); an absent id is the empty string
normalizeProfileId(id) == toLowerCase(trim(id))

NumericIdMinLen == 6

\* /^\d{6,}$/.test(q)
isNumericId(q) == Len(q) >= NumericIdMinLen /\ \A i \in DOMAIN q : q[i] \in DigitChars

\* \b of a regular expression at the gap before position i of s (1..Len(s)+1):
\* exactly one of the two neighbouring characters is a word character
wordBoundaryAt(s, i) ==
    LET before == i > 1 /\ IsWordChar(s[i - 1])
        after == i <= Len(s) /\ IsWordChar(s[i])
    IN  before # after

\* the escaped term of line 245 matched literally at position i under the flag "i"
literalMatchesAt(s, q, i) ==
    /\ i + Len(q) - 1 <= Len(s)
    /\ \A j \in 1..Len(q) : LowerChar(s[i + j - 1]) = LowerChar(q[j])

\* new RegExp(`\\b${escaped q}\\b`, "i").test(t)
wordRegExpTest(t, q) ==
    \E i \in 1..(Len(t) + 1) :
        /\ wordBoundaryAt(t, i)
        /\ literalMatchesAt(t, q, i)
        /\ wordBoundaryAt(t, i + Len(q))

\* a plausible slip: the numeric shortcut is taken for every term
containsTerm_alwaysIncludes(text, term) ==
    LET t == toLowerCase(text)
        q == trim(toLowerCase(term))
    IN  IF q = <<>> THEN FALSE ELSE includes(t, q)

containsTerm(text, term) ==
    LET t == toLowerCase(text)
        q == trim(toLowerCase(term))
    IN  IF q = <<>> THEN FALSE
        ELSE IF isNumericId(q) THEN includes(t, q)
        ELSE wordRegExpTest(t, q)

(***************************************************************************)
(* Profile resolver (index.js:249-298)                                     *)
(*                                                                         *)
(* PROFILES is [default |-> string, profiles |-> mapping]; the mapping is  *)
(* the sequence of its own [key, value] entries in insertion order (the    *)
(* order of Object.entries); a persona is a record holding the fields its  *)
(* JSON object has.                                                        *)
(***************************************************************************)

\* Properties every plain object inherits from Object.prototype: obj[key]
\* evaluates to a function (or, for __proto__, an object) when obj has no own
\* property key.
ObjectPrototypeKeys ==
    { <<"c","o","n","s","t","r","u","c","t","o","r">>, <<"_","_","p","r","o","t","o","_","_">>, <<"t","o","S","t","r","i","n","g">>, <<"v","a","l","u","e","O","f">>, <<"h","a","s","O","w","n","P","r","o","p","e","r","t","y">> }

\* PROFILES.profiles?.[key]: whether the value is truthy, and the own enumerable
\* properties that spreading it yields (none for an inherited function)
getProperty(profiles, key) ==
    IF \E i \in DOMAIN profiles : profiles[i].key = key
    THEN [truthy |-> TRUE,
          value |-> profiles[CHOOSE i \in DOMAIN profiles : profiles[i].key = key].value]
    ELSE IF key \in ObjectPrototypeKeys THEN [truthy |-> TRUE, value |-> <<>>]
    ELSE [truthy |-> FALSE, value |-> <<>>]

\* { id: id, ...record }: a field id of the record itself overrides the given id
withId(id, record) ==
    [f \in {"id"} \cup DOMAIN record |-> IF f \in DOMAIN record THEN record[f] ELSE id]

\* name.split(/\s+/)[0]
firstToken(name) ==
    LET ws == {i \in DOMAIN name : name[i] \in WhitespaceChars}
    IN  IF ws = {} THEN name
        ELSE SubSeq(name, 1, (CHOOSE i \in ws : \A j \in ws : i <= j) - 1)

\* the Set "terms" of inferProfileIdFromMessage for the entry (id, p)
profileTerms(id, p) ==
    {normalizeProfileId(id)}
    \cup (IF "name" \in DOMAIN p /\ p.name # <<>>
          THEN ({toLowerCase(firstToken(p.name))} \ {<<>>}) \cup {toLowerCase(p.name)}
          ELSE {})
    \cup (IF "aliases" \in DOMAIN p
          THEN {toLowerCase(trim(p.aliases[i])) :
                    i \in {j \in DOMAIN p.aliases : trim(p.aliases[j]) # <<>>}}
          ELSE {})

\* const def = null: the result null is [isNull |-> TRUE]
inferProfileIdFromMessage(message) ==
    LET msg == toLowerCase(message)
        entries == PROFILES.profiles
        hits == {i \in DOMAIN entries :
                    \E term \in profileTerms(entries[i].key, entries[i].value) :
                        containsTerm(msg, term)}
    IN  IF hits = {} THEN [isNull |-> TRUE, pid |-> <<>>]
        ELSE [isNull |-> FALSE,
              pid |-> normalizeProfileId(entries[CHOOSE i \in hits : \A j \in hits : i <= j].key)]

DefaultId == <<"d","e","f","a","u","l","t">>

\* let PROFILES = { default: "default", profiles: {} }
NoProfiles == [default |-> DefaultId, profiles |-> <<>>]

getActiveProfile(profileId, userMessage) ==
    LET requested == normalizeProfileId(profileId)
        inferred == inferProfileIdFromMessage(userMessage)
        def == IF normalizeProfileId(PROFILES.default) # <<>>
               THEN normalizeProfileId(PROFILES.default) ELSE DefaultId
    IN  IF requested # <<>> /\ getProperty(PROFILES.profiles, requested).truthy
        THEN withId(requested, getProperty(PROFILES.profiles, requested).value)
        ELSE IF ~inferred.isNull /\ inferred.pid # <<>>
                /\ getProperty(PROFILES.profiles, inferred.pid).truthy
        THEN withId(inferred.pid, getProperty(PROFILES.profiles, inferred.pid).value)
        ELSE IF getProperty(PROFILES.profiles, def).truthy
        THEN withId(def, getProperty(PROFILES.profiles, def).value)
        ELSE [id |-> DefaultId]

(***************************************************************************)
(* Keyword retriever (index.js:207-230)                                    *)
(*                                                                         *)
(* A knowledge chunk is [source |-> file name, text |-> text].             *)
(***************************************************************************)

RECURSIVE splitNonWord(_, _, _, _)
\* q.split(/\W+/): the pieces between the runs of non-word characters
splitNonWord(q, i, cur, acc) ==
    IF i > Len(q) THEN Append(acc, cur)
    ELSE IF IsWordChar(q[i]) THEN splitNonWord(q, i + 1, Append(cur, q[i]), acc)
    ELSE IF i > 1 /\ ~IsWordChar(q[i - 1]) THEN splitNonWord(q, i + 1, cur, acc)
    ELSE splitNonWord(q, i + 1, <<>>, Append(acc, cur))

MinTermLen == 3

RECURSIVE keepLongTerms(_)
\* .filter((t) => t.length >= 3)
keepLongTerms(ts) ==
    IF ts = <<>> THEN <<>>
    ELSE IF Len(Head(ts)) >= MinTermLen THEN <<Head(ts)>> \o keepLongTerms(Tail(ts))
    ELSE keepLongTerms(Tail(ts))

\* const terms = q.split(/\W+/).filter((t) => t.length >= 3), repetitions kept
queryTerms(q) == keepLongTerms(splitNonWord(q, 1, <<>>, <<>>))

MdExtension == <<".","m","d">>

\* ch.source.replace(".md", ""): the first occurrence is removed
removeFirstMd(source) ==
    LET at == {i \in 1..Len(source) : OccursAt(source, MdExtension, i)}
    IN  IF at = {} THEN source
        ELSE LET i == CHOOSE x \in at : \A y \in at : x <= y
             IN  SubSeq(source, 1, i - 1) \o SubSeq(source, i + Len(MdExtension), Len(source))

FileHintBonus == 2

\* the k that buildAssistantInstructions passes (and the default of the parameter)
TopK == 6

\* the callback of chunks.map: the score of one chunk
chunkScore(q, terms, ch) ==
    LET t == toLowerCase(ch.text)
        fileHint == toLowerCase(removeFirstMd(ch.source))
    IN  Cardinality({i \in DOMAIN terms : includes(t, terms[i])})
        + (IF includes(q, fileHint) THEN FileHintBonus ELSE 0)

RECURSIVE keepScored(_)
\* .filter((x) => x.score > 0)
keepScored(xs) ==
    IF xs = <<>> THEN <<>>
    ELSE IF Head(xs).score > 0 THEN <<Head(xs)>> \o keepScored(Tail(xs))
    ELSE keepScored(Tail(xs))

\* a plausible slip: an element goes in front of the elements of equal score
insertByScore_beforeEqual(sorted, x) ==
    LET n == Cardinality({i \in DOMAIN sorted : sorted[i].score > x.score})
    IN  SubSeq(sorted, 1, n) \o <<x>> \o SubSeq(sorted, n + 1, Len(sorted))

\* x put into the list sorted by descending score, behind the elements of equal score
insertByScore(sorted, x) ==
    LET n == Cardinality({i \in DOMAIN sorted : sorted[i].score >= x.score})
    IN  SubSeq(sorted, 1, n) \o <<x>> \o SubSeq(sorted, n + 1, Len(sorted))

RECURSIVE sortByScore(_, _)
\* scored.sort((a, b) => b.score - a.score): Array.prototype.sort is stable
sortByScore(xs, sorted) ==
    IF xs = <<>> THEN sorted
    ELSE sortByScore(Tail(xs), insertByScore(sorted, Head(xs)))

retrieveByKeywords(query, chunks, k) ==
    LET q == toLowerCase(query)
        terms == queryTerms(q)
        scored == [i \in DOMAIN chunks |->
                      [source |-> chunks[i].source, text |-> chunks[i].text,
                       score |-> chunkScore(q, terms, chunks[i])]]
        ranked == sortByScore(keepScored(scored), <<>>)
    IN  SubSeq(ranked, 1, IF k < Len(ranked) THEN k ELSE Len(ranked))

(***************************************************************************)
(* Prompt assembler (index.js:300-393)                                     *)
(***************************************************************************)

\* a plausible slip: the allow-list is not applied
getKnowledgePoolForProfile_noFilter(activeProfile) == KNOWLEDGE_CHUNKS

RECURSIVE keepAllowed(_, _)
\* KNOWLEDGE_CHUNKS.filter((ch) => allow.has(ch.source))
keepAllowed(chunks, allow) ==
    IF chunks = <<>> THEN <<>>
    ELSE IF Head(chunks).source \in allow THEN <<Head(chunks)>> \o keepAllowed(Tail(chunks), allow)
    ELSE keepAllowed(Tail(chunks), allow)

\* a persona's knowledgeFiles field, when present, is an array of file names
getKnowledgePoolForProfile(activeProfile) ==
    IF "knowledgeFiles" \in DOMAIN activeProfile
    THEN keepAllowed(KNOWLEDGE_CHUNKS, Range(activeProfile.knowledgeFiles))
    ELSE KNOWLEDGE_CHUNKS

\* the first line of SYSTEM_PROMPT (index.js:91-109) stands for the whole constant
SYSTEM_PROMPT == <<"Y","o","u"," ","a","r","e"," ","t","h","e"," ","A","I"," ","a","s","s","i","s","t","a","n","t"," ","f","o","r"," ","S","a","n","k","a","l","p"," ","S","i","n","g","h">>

DefaultName == <<"S","a","n","k","a","l","p"," ","S","i","n","g","h">>

DefaultTone == <<"p","r","o","f","e","s","s","i","o","n","a","l",","," ","c","o","n","f","i","d","e","n","t",","," ","c","o","n","c","i","s","e">>

\* obj.field || fallback: the field when it is present and not the empty string
orElse(obj, field, fallback) ==
    IF field \in DOMAIN obj /\ obj[field] # <<>> THEN obj[field] ELSE fallback

\* a plausible slip: the whole persona is rendered
profileForPrompt_wholePersona(active) == active

\* const profileForPrompt = { id, name, tone, rules, notes }, as JSON.stringify
\* renders it: a field the persona lacks is left out
profileForPrompt(active) ==
    [f \in {"id", "name", "tone", "rules", "notes"} \cap DOMAIN active |-> active[f]]

\* a plausible slip: the source name is left out
excerpt_textOnly(c) == c.text

\* `[${c.source}]\n${c.text}`
excerpt(c) == <<"[">> \o c.source \o <<"]", NL>> \o c.text

ExcerptRule == <<NL, NL, "-", "-", "-", NL, NL>>

\* the RULES lines of the template returned when nothing was retrieved
\* (index.js:359-363); the typographic apostrophe and dash are written in ASCII
RulesWithoutKnowledge ==
    << <<"-"," ","U","s","e"," ","t","h","e"," ","P","R","O","F","I","L","E"," ","+"," ","K","N","O","W","L","E","D","G","E"," ","a","s"," ","t","h","e"," ","o","n","l","y"," ","s","o","u","r","c","e"," ","o","f"," ","t","r","u","t","h",".">>,
       <<"-"," ","I","f"," ","m","i","s","s","i","n","g",","," ","s","a","y",":"," ","\"","I"," ","d","o","n","'","t"," ","w","a","n","t"," ","t","o"," ","g","u","e","s","s","-","i","f"," ","y","o","u"," ","s","h","a","r","e"," ","a"," ","b","i","t"," ","m","o","r","e"," ","d","e","t","a","i","l",","," ","I","'","l","l"," ","a","n","s","w","e","r"," ","a","c","c","u","r","a","t","e","l","y",".","\"">>,
       <<"-"," ","D","o"," ","N","O","T"," ","i","n","v","e","n","t"," ","p","e","r","s","o","n","a","l"," ","f","a","c","t","s"," ","o","r"," ","m","e","m","o","r","i","e","s",".">>,
       <<"-"," ","N","o"," ","m","a","r","k","d","o","w","n"," ","h","e","a","d","e","r","s"," ","l","i","k","e"," ","\"","#","#","\"","."," ","P","l","a","i","n"," ","t","e","x","t"," ","w","i","t","h"," ","l","i","n","e"," ","b","r","e","a","k","s",".">> >>

\* the RULES lines of the template with a knowledge block (index.js:385-388)
RulesWithKnowledge ==
    << <<"-"," ","U","s","e"," ","t","h","e"," ","K","N","O","W","L","E","D","G","E"," ","e","x","c","e","r","p","t","s"," ","a","s"," ","s","o","u","r","c","e"," ","o","f"," ","t","r","u","t","h",".">>,
       <<"-"," ","D","o"," ","n","o","t"," ","i","n","v","e","n","t"," ","d","e","t","a","i","l","s"," ","o","r"," ","m","e","m","o","r","i","e","s",".">>,
       <<"-"," ","N","o"," ","m","a","r","k","d","o","w","n"," ","h","e","a","d","e","r","s"," ","l","i","k","e"," ","\"","#","#","\"","."," ","P","l","a","i","n"," ","t","e","x","t"," ","w","i","t","h"," ","l","i","n","e"," ","b","r","e","a","k","s",".">> >>

\* The grounding text, as the values its template interpolates: variant names
\* the template (index.js:347-364 or 371-392), top is the retrieval result the
\* knowledge block was rendered from, rules is the RULES section.
buildAssistantInstructions(userMessage, profileId) ==
    LET active == getActiveProfile(profileId, userMessage)
        name == orElse(active, "name",
                    orElse(LEGACY_PROFILE, "preferredName",
                        orElse(LEGACY_PROFILE, "name", DefaultName)))
        tone == orElse(active, "tone", orElse(LEGACY_PROFILE, "tone", DefaultTone))
        systemPrompt == orElse(active, "systemPrompt", SYSTEM_PROMPT)
        knowledgePool == getKnowledgePoolForProfile(active)
        top == retrieveByKeywords(userMessage, knowledgePool, TopK)
    IN  IF top = <<>>
        THEN [variant |-> "noKnowledge", systemPrompt |-> systemPrompt,
              profileForPrompt |-> profileForPrompt(active), tone |-> tone,
              top |-> top, knowledgeBlock |-> <<>>, rules |-> RulesWithoutKnowledge]
        ELSE [variant |-> "knowledge", systemPrompt |-> systemPrompt, name |-> name,
              profileForPrompt |-> profileForPrompt(active), tone |-> tone,
              top |-> top,
              knowledgeBlock |-> join([i \in DOMAIN top |-> excerpt(top[i])], ExcerptRule),
              rules |-> RulesWithKnowledge]

(***************************************************************************)
(* Stores (index.js:154-205)                                               *)
(*                                                                         *)
(* A file on disk is [status |-> "missing" | "unparsable" | "ok", json |-> *)
(* the parsed value].  A parsed JSON value is [type |-> "null" | "number"  *)
(* | "string" | "boolean" | "array" | "object", ...]; an object carries    *)
(* its entries in order, each [key, type, value]: type "string" with the   *)
(* string as value, or type "object" with, as value, a persona record or   *)
(* (under the key profiles) a mapping of persona entries; an entry may     *)
(* carry, as fields, its persona record read as a mapping of its fields.   *)
(***************************************************************************)

\* the entries of obj whose key is key
entriesOf(obj, key) == {i \in DOMAIN obj.entries : obj.entries[i].key = key}

\* typeof raw.default === "string" ? raw.default : "default"
defaultOf(raw) ==
    LET at == entriesOf(raw, <<"d","e","f","a","u","l","t">>)
    IN  IF at # {} /\ raw.entries[CHOOSE i \in at : TRUE].type = "string"
        THEN raw.entries[CHOOSE i \in at : TRUE].value
        ELSE DefaultId

\* a plausible slip: the flat shape keeps its default entry as a persona
withoutKey_keepsAll(entries, key) == entries

RECURSIVE withoutKey(_, _)
\* delete copy.default
withoutKey(entries, key) ==
    IF entries = <<>> THEN <<>>
    ELSE IF Head(entries).key = key THEN withoutKey(Tail(entries), key)
    ELSE <<Head(entries)>> \o withoutKey(Tail(entries), key)

\* the [key, value] entries of a mapping of personas
asMapping(entries) == [i \in DOMAIN entries |-> [key |-> entries[i].key, value |-> entries[i].value]]

\* {...raw} of an array: its elements under the keys "0", "1", ...
arrayEntries(raw) ==
    [i \in DOMAIN raw.items |->
        [key |-> <<CHOOSE d \in DigitChars : d = ToString(i - 1)>>, value |-> raw.items[i]]]

\* raw.profiles as a mapping: an object written as a persona record is read
\* by its fields
mappingOf(entry) == IF "fields" \in DOMAIN entry THEN entry.fields ELSE entry.value

normalizeProfiles(raw) ==
    IF raw.type \notin {"object", "array"} THEN NoProfiles
    ELSE IF raw.type = "array" THEN [default |-> DefaultId, profiles |-> arrayEntries(raw)]
    ELSE IF \E i \in entriesOf(raw, <<"p","r","o","f","i","l","e","s">>) : raw.entries[i].type \in {"object", "array"}
    THEN [default |-> defaultOf(raw),
          profiles |-> mappingOf(raw.entries[CHOOSE i \in entriesOf(raw, <<"p","r","o","f","i","l","e","s">>) : TRUE])]
    ELSE [default |-> defaultOf(raw),
          profiles |-> asMapping(withoutKey(raw.entries, <<"d","e","f","a","u","l","t">>))]

\* loadLegacyProfile, given the file as it is on disk when it is read
loadLegacyProfile(file) == IF file.status = "ok" THEN file.json ELSE <<>>

\* loadProfiles, given the file as it is on disk when it is read
loadProfiles(file) == IF file.status = "ok" THEN normalizeProfiles(file.json) ELSE NoProfiles

\* f.endsWith(".md")
endsWithMd(f) ==
    Len(f) >= Len(MdExtension) /\ SubSeq(f, Len(f) - Len(MdExtension) + 1, Len(f)) = MdExtension

(* The state after the module's declarations have run (index.js:127-131)   *)
(***************************************************************************)

MaxReloads == 3

MaxChats == 1

ReloadIds == 1..MaxReloads

ChatIds == 1..MaxChats

IdleReload == [pc |-> "idle", origin |-> "none", files |-> <<>>, all |-> <<>>, response |-> <<>>]

IdleChat == [pc |-> "idle"]

\* every global as the declarations leave it; 0 stands for the null of
\* KNOWLEDGE_LAST_LOADED_AT, and invocation 0 for the declarations
Declared ==
    /\ LEGACY_PROFILE = <<>>
    /\ PROFILES = NoProfiles
    /\ KNOWLEDGE_CHUNKS = <<>>
    /\ KNOWLEDGE_LAST_LOADED_AT = 0

\* meetingData = { name: '', email: '', preferredDateTime: '', projectDescription: '' }
NoMeetingData ==
    [name |-> <<>>, email |-> <<>>, preferredDateTime |-> <<>>, projectDescription |-> <<>>]

\* the chatbot of the page as its declarations leave it (chatbot.js:69-78),
\* nothing typed and nothing fetched yet
ChatbotDeclared ==
    /\ conversationHistory = <<>>
    /\ lastBotMessage = <<>>
    /\ isCollectingMeetingInfo = FALSE
    /\ meetingData = NoMeetingData
    /\ fetches = <<>>
    /\ sends = 0

ChatbotUnchanged ==
    UNCHANGED <<conversationHistory, lastBotMessage, isCollectingMeetingInfo, meetingData,
                fetches, sends>>

\* no initRAG invocation and no request exists
NoProcess ==
    /\ ChatbotDeclared
    /\ clock = 1
    /\ listening = FALSE
    /\ reloads = [r \in ReloadIds |-> IdleReload]
    /\ chats = [c \in ChatIds |-> IdleChat]
    /\ loadedBy = [legacy |-> 0, profiles |-> 0, chunks |-> 0, stamp |-> 0]

EmptyDisk ==
    [legacy |-> [status |-> "missing"], profiles |-> [status |-> "missing"],
     knowledge |-> [status |-> "missing"]]

\* the state in which a pure function is examined when it reads no global
ServerInit ==
    /\ Declared
    /\ NoProcess
    /\ disk = EmptyDisk

BackendUnchanged ==
    UNCHANGED <<LEGACY_PROFILE, PROFILES, KNOWLEDGE_CHUNKS, KNOWLEDGE_LAST_LOADED_AT,
                disk, clock, listening, reloads, chats, loadedBy>>

ServerUnchanged == BackendUnchanged /\ ChatbotUnchanged

(***************************************************************************)
(* SpecChunk: chunkText applied to every document over a small alphabet    *)
(***************************************************************************)

MaxDocLen == 11

MaxSpacedDocLen == 6

MaxChunkLen == 5

\* documents of letters and newlines, and shorter ones that also hold spaces
Documents == StringsUpTo({"a", NL}, MaxDocLen) \cup StringsUpTo({"a", NL, " "}, MaxSpacedDocLen)

InitChunk ==
    /\ ServerInit
    /\ \E text \in Documents, maxLen \in 0..MaxChunkLen :
          call = [fn |-> "chunkText", pc |-> "called", text |-> text, maxLen |-> maxLen]
    /\ ret = <<>>

Return_chunkText ==
    /\ call.fn = "chunkText"
    /\ call.pc = "called"
    /\ ret' = chunkText(call.text, call.maxLen)
    /\ call' = [call EXCEPT !.pc = "returned"]
    /\ ServerUnchanged

NextChunk == Return_chunkText

SpecChunk == InitChunk /\ [][NextChunk]_vars

chunkTextReturned == call.fn = "chunkText" /\ call.pc = "returned"

\* C8: every chunk is at most maxLen long unless it is exactly one source
\* paragraph that alone is longer than maxLen; a paragraph longer than maxLen
\* shares its chunk with no other paragraph and comes out whole.
C8_ChunkCap ==
    chunkTextReturned =>
        LET parts == chunkParts(call.text)
            inChunk == [i \in DOMAIN ret |-> chunkParts(ret[i])]
        IN  /\ \A i \in DOMAIN ret :
                  \/ Len(ret[i]) <= call.maxLen
                  \/ /\ Len(inChunk[i]) = 1
                     /\ inChunk[i][1] = ret[i]
                     /\ \E j \in DOMAIN parts : parts[j] = ret[i] /\ Len(parts[j]) > call.maxLen
            /\ \A i \in DOMAIN ret : \A j \in DOMAIN inChunk[i] :
                  Len(inChunk[i][j]) > call.maxLen => Len(inChunk[i]) = 1
            /\ \A j \in DOMAIN parts :
                  Len(parts[j]) > call.maxLen => \E i \in DOMAIN ret : ret[i] = parts[j]

\* a document whose chunks include a merged chunk and an oversized paragraph alone
C8_Witness ==
    /\ chunkTextReturned
    /\ \E i \in DOMAIN ret : Len(ret[i]) > call.maxLen
    /\ \E i \in DOMAIN ret : Len(chunkParts(ret[i])) >= 2
    /\ Len(ret) >= 2

\* C9: the chunks joined with a blank line are the document's trimmed
\* non-empty paragraphs joined with a blank line, in order; no paragraph is
\* lost, duplicated or reordered and no chunk is empty.
C9_ChunksPreserveContent ==
    chunkTextReturned =>
        LET parts == chunkParts(call.text)
        IN  /\ join(ret, BlankLine) = join(parts, BlankLine)
            /\ Concat([i \in DOMAIN ret |-> chunkParts(ret[i])]) = parts
            /\ \A i \in DOMAIN ret : ret[i] # <<>>

\* a document with a run of three newlines whose paragraphs end up in two chunks
C9_Witness ==
    /\ chunkTextReturned
    /\ includes(call.text, <<NL, NL, NL>>)
    /\ Len(chunkParts(call.text)) >= 3
    /\ Len(ret) = 2

(***************************************************************************)
(* SpecTerm: containsTerm applied to messages and terms                    *)
(***************************************************************************)

MaxMsgLen == 4

MaxTermLen == 2

MaxDigitMsgLen == 8

\* letters in both cases, a space and a character that is neither a word
\* character nor whitespace
TermAlphabet == {"a", "A", " ", "+"}

\* runs of one digit just below, at and just above the numeric threshold
DigitTerms == {[i \in 1..n |-> "1"] : n \in (NumericIdMinLen - 1)..(NumericIdMinLen + 1)}

\* the examples of the specification's section 8
SpecExamples ==
    { <<<<"I"," ","l","i","k","e"," ","b","a","n","a","n","a"," ","b","r","e","a","d">>, <<"a","n","a">>>>,
      <<<<"i","s"," ","a","n","a"," ","a","v","a","i","l","a","b","l","e","?">>, <<"a","n","a">>>>,
      <<<<"I","s"," ","A","N","A"," ","a","v","a","i","l","a","b","l","e","?">>, <<"a","n","a">>>>,
      <<<<"c","a","l","l"," ","6","8","2","2","1","9","8","6","8","2"," ","n","o","w">>, <<"6","8","2","2","1","9","8","6","8","2">>>>,
      <<<<"i","d",":","x","6","8","2","2","1","9","8","6","8","2","y">>, <<"6","8","2","2","1","9","8","6","8","2">>>> }

TermCalls ==
    (StringsUpTo(TermAlphabet, MaxMsgLen) \X StringsUpTo(TermAlphabet, MaxTermLen))
    \cup (StringsUpTo({"1", "a"}, MaxDigitMsgLen) \X DigitTerms)
    \cup SpecExamples

InitTerm ==
    /\ ServerInit
    /\ \E c \in TermCalls :
          call = [fn |-> "containsTerm", pc |-> "called", text |-> c[1], term |-> c[2]]
    /\ ret = <<>>

Return_containsTerm ==
    /\ call.fn = "containsTerm"
    /\ call.pc = "called"
    /\ ret' = containsTerm(call.text, call.term)
    /\ call' = [call EXCEPT !.pc = "returned"]
    /\ ServerUnchanged

NextTerm == Return_containsTerm

SpecTerm == InitTerm /\ [][NextTerm]_vars

containsTermReturned == call.fn = "containsTerm" /\ call.pc = "returned"

\* the gaps of the message (gap g lies between characters g and g+1) at which a
\* word character meets a non-word character or an end of the message
WordBoundaries(message) ==
    LET isWord(k) == k \in DOMAIN message /\ IsWordChar(message[k])
    IN  {g \in 0..Len(message) : isWord(g) # isWord(g + 1)}

\* the term occurs in the message, ignoring case, with a word boundary on both sides
OccursAsWord(message, term) ==
    \E i \in 1..(Len(message) + 1) :
        /\ OccursAt(toLowerCase(message), toLowerCase(term), i)
        /\ (i - 1) \in WordBoundaries(message)
        /\ (i + Len(term) - 1) \in WordBoundaries(message)

\* the rule of claim C7 for a non-empty term
TermRule(message, term) ==
    IF Len(term) >= 6 /\ Range(term) \subseteq DigitChars
    THEN \E i \in 1..(Len(message) - Len(term) + 1) : SubSeq(message, i, i + Len(term) - 1) = term
    ELSE OccursAsWord(message, term)

\* C7 as stated: every non-empty term follows the rule (digits of length >= 6
\* by containment, every other term by a word-delimited match ignoring case).
C7_TermRuleAsStated ==
    containsTermReturned /\ call.term # <<>> => ret = TermRule(call.text, call.term)

\* C7 as amended: the rule applies to the term trimmed of surrounding
\* whitespace, and a term that trims to nothing never matches.
C7_TermRuleOnTrimmedTerm ==
    containsTermReturned =>
        ret = (trim(call.term) # <<>> /\ TermRule(call.text, trim(call.term)))

\* a term with surrounding whitespace matches through its trimmed form, where
\* the untrimmed term does not occur in the message
C7_Witness ==
    /\ containsTermReturned
    /\ call.term # trim(call.term)
    /\ ret = TRUE
    /\ ~TermRule(call.text, call.term)


(***************************************************************************)
(* SpecResolve: getActiveProfile applied to stores, requested ids and      *)
(* messages                                                                *)
(***************************************************************************)

\* the store of the specification's section 8
StoreExample ==
    [default |-> <<"d","e","f","a","u","l","t">>,
     profiles |-> << [key |-> <<"a","n","a">>, value |-> [aliases |-> <<<<"a","n","n","i","e">>>>]],
                     [key |-> <<"d","e","f","a","u","l","t">>, value |-> <<>>] >>]

\* a store whose author capitalised the persona ids
StoreCapitalised ==
    [default |-> <<"A","n","a">>,
     profiles |-> << [key |-> <<"A","n","a">>, value |-> [name |-> <<"A","n","a"," ","L","e","e">>, aliases |-> <<<<"a","n","n","i","e">>>>]],
                     [key |-> <<"B","o","b">>, value |-> [name |-> <<"B","o","b"," ","R","a","y">>]] >>]

\* a store whose default pointer names no persona
StoreDangling ==
    [default |-> <<"g","h","o","s","t">>,
     profiles |-> << [key |-> <<"a","n","a">>, value |-> [aliases |-> <<<<"a","n","n","i","e">>>>]] >>]

\* two personas that one message can both match
StoreTwo ==
    [default |-> <<"b","o","b">>,
     profiles |-> << [key |-> <<"b","o","b">>, value |-> [name |-> <<"B","o","b"," ","R","a","y">>, aliases |-> <<<<"b","o","b","b","y">>>>]],
                     [key |-> <<"a","n","a">>, value |-> [name |-> <<"A","n","a"," ","L","e","e">>,
                                                 aliases |-> <<<<"a","n","n","i","e">>, <<"6","8","2","2","1","9","8","6","8","2">>>>]] >>]

ResolveStores == {NoProfiles, StoreExample, StoreCapitalised, StoreDangling, StoreTwo}

\* the profileId of a request; the empty string stands for an absent one, which
\* String(id || "") makes of it
RequestedIds ==
    { <<>>, <<"a","n","a">>, <<"A","N","A">>, <<" ","A","n","a"," ">>, <<"A","n","a">>, <<"b","o","b">>, <<"z","e","d">>, <<"d","e","f","a","u","l","t">>, <<"c","o","n","s","t","r","u","c","t","o","r">> }

Messages ==
    { <<"h","i"," ","a","n","n","i","e"," ","h","o","w"," ","a","r","e"," ","y","o","u">>, <<"h","e","l","l","o"," ","t","h","e","r","e">>, <<"i","s"," ","a","n","a"," ","a","v","a","i","l","a","b","l","e","?">>,
      <<"I"," ","l","i","k","e"," ","b","a","n","a","n","a"," ","b","r","e","a","d">>, <<"a","s","k"," ","b","o","b"," ","o","r"," ","a","n","a">>, <<"c","a","l","l"," ","6","8","2","2","1","9","8","6","8","2"," ","n","o","w">> }

InitResolve ==
    /\ LEGACY_PROFILE = <<>>
    /\ PROFILES \in ResolveStores
    /\ KNOWLEDGE_CHUNKS = <<>>
    /\ KNOWLEDGE_LAST_LOADED_AT = 0
    /\ NoProcess
    /\ disk = EmptyDisk
    /\ \E id \in RequestedIds, m \in Messages :
          call = [fn |-> "getActiveProfile", pc |-> "called", profileId |-> id, userMessage |-> m]
    /\ ret = <<>>

Return_getActiveProfile ==
    /\ call.fn = "getActiveProfile"
    /\ call.pc = "called"
    /\ ret' = getActiveProfile(call.profileId, call.userMessage)
    /\ call' = [call EXCEPT !.pc = "returned"]
    /\ ServerUnchanged

NextResolve == Return_getActiveProfile

SpecResolve == InitResolve /\ [][NextResolve]_vars

getActiveProfileReturned == call.fn = "getActiveProfile" /\ call.pc = "returned"

\* the persona ids of the store
StoreIds == {PROFILES.profiles[i].key : i \in DOMAIN PROFILES.profiles}

StoreRecord(id) ==
    PROFILES.profiles[CHOOSE i \in DOMAIN PROFILES.profiles : PROFILES.profiles[i].key = id].value

\* r is the persona that the store holds under id: it carries the record's
\* fields and an id that names it
IsPersona(r, id) ==
    /\ "id" \in DOMAIN r
    /\ toLowerCase(r.id) = toLowerCase(id)
    /\ DOMAIN r = {"id"} \cup DOMAIN StoreRecord(id)
    /\ \A f \in DOMAIN StoreRecord(id) : r[f] = StoreRecord(id)[f]

\* the positions of the personas that the message matches
MatchedEntries(message) ==
    {i \in DOMAIN PROFILES.profiles :
        \E term \in profileTerms(PROFILES.profiles[i].key, PROFILES.profiles[i].value) :
            containsTerm(message, term)}

FirstMatchedId(message) ==
    PROFILES.profiles[CHOOSE i \in MatchedEntries(message) :
                          \A j \in MatchedEntries(message) : i <= j].key

\* the request names no persona, even with its id trimmed and case ignored
RequestUnknown ==
    \A id \in StoreIds : normalizeProfileId(id) # normalizeProfileId(call.profileId)

\* C4: a requestedId that names a known persona wins over the message; with
\* requestedId absent or unknown, a persona matched by the message wins over
\* the configured default; the default is returned only when neither applies.
C4_ResolverPrecedence ==
    getActiveProfileReturned =>
        LET req == call.profileId
            matched == MatchedEntries(call.userMessage)
        IN  /\ req \in StoreIds => IsPersona(ret, req)
            /\ RequestUnknown /\ matched # {} =>
                  IsPersona(ret, FirstMatchedId(call.userMessage))
            /\ PROFILES.default \in StoreIds /\ IsPersona(ret, PROFILES.default) =>
                  \/ normalizeProfileId(req) = normalizeProfileId(PROFILES.default)
                  \/ RequestUnknown /\ matched = {}
                  \/ RequestUnknown /\ FirstMatchedId(call.userMessage) = PROFILES.default

\* C5: a requestedId equal to a persona id of the store when case is ignored
\* resolves to that persona, whatever the message and the letter case.
C5_ExplicitIdIgnoresCase ==
    getActiveProfileReturned =>
        \A id \in StoreIds :
            toLowerCase(id) = toLowerCase(call.profileId) => IsPersona(ret, id)

\* no persona is named by the request, matched by the message or named by the
\* default pointer, under the most generous reading of "named" (trimmed,
\* case ignored)
NoPersonaFound ==
    /\ RequestUnknown
    /\ \A id \in StoreIds : normalizeProfileId(id) # normalizeProfileId(PROFILES.default)
    /\ MatchedEntries(call.userMessage) = {}

\* C6: resolution returns a persona (a record with an id) for every store,
\* requestedId and message, and exactly the bare persona {id: "default"} when
\* no explicit, inferred or default persona is found.
C6_ResolutionNeverFails ==
    getActiveProfileReturned =>
        /\ "id" \in DOMAIN ret
        /\ NoPersonaFound => ret = [id |-> <<"d","e","f","a","u","l","t">>]


(***************************************************************************)
(* SpecRetrieve: retrieveByKeywords applied to queries and chunk pools     *)
(***************************************************************************)

MaxQueryLen == 7

MaxMixedQueryLen == 4

MaxPoolLen == 2

MaxK == 2

\* queries of one letter and spaces (long enough to repeat a term), shorter
\* ones over two letters in both cases, and two that name a file
Queries ==
    StringsUpTo({"a", " "}, MaxQueryLen)
    \cup StringsUpTo({"a", "B", " "}, MaxMixedQueryLen)
    \cup { <<"w","h","a","t"," ","a","r","e"," ","y","o","u","r"," ","r","a","t","e","s">>, <<"r","a","t","e","s"," ","i","n"," ","r","a","t","e","s",".","m","d">> }

RetrieveChunks ==
    { [source |-> <<"a",".","m","d">>, text |-> <<"a","a","a"," ","b","a","b">>],
      [source |-> <<"b","a","b",".","m","d">>, text |-> <<"A","a","a","a">>],
      [source |-> <<"r","a","t","e","s",".","m","d">>, text |-> <<"r","a","t","e","s"," ","a","r","e"," ","s","e","v","e","n","t","y"," ","f","i","v","e">>],
      [source |-> <<"b",".","m","d">>, text |-> <<"d","a","l","l","a","s"," ","t","e","x","a","s"," ","l","o","c","a","t","i","o","n">>] }

Pools == UNION {[1..n -> RetrieveChunks] : n \in 0..MaxPoolLen}

InitRetrieve ==
    /\ ServerInit
    /\ \E query \in Queries, chunks \in Pools, k \in (1..MaxK) \cup {TopK} :
          call = [fn |-> "retrieveByKeywords", pc |-> "called",
                  query |-> query, chunks |-> chunks, k |-> k]
    /\ ret = <<>>

Return_retrieveByKeywords ==
    /\ call.fn = "retrieveByKeywords"
    /\ call.pc = "called"
    /\ ret' = retrieveByKeywords(call.query, call.chunks, call.k)
    /\ call' = [call EXCEPT !.pc = "returned"]
    /\ ServerUnchanged

NextRetrieve == Return_retrieveByKeywords

SpecRetrieve == InitRetrieve /\ [][NextRetrieve]_vars

retrieveByKeywordsReturned == call.fn = "retrieveByKeywords" /\ call.pc = "returned"

\* the distinct words of the lowercased query that are at least 3 long
DistinctQueryTerms(query) == Range(queryTerms(toLowerCase(query)))

\* the source name without its extension, lowercased
SourceStem(source) ==
    toLowerCase(IF Len(source) >= 3 /\ SubSeq(source, Len(source) - 2, Len(source)) = <<".","m","d">>
                THEN SubSeq(source, 1, Len(source) - 3) ELSE source)

\* the score of claim C10
DistinctTermScore(query, ch) ==
    Cardinality({t \in DistinctQueryTerms(query) : includes(toLowerCase(ch.text), t)})
    + (IF includes(toLowerCase(query), SourceStem(ch.source)) THEN 2 ELSE 0)

\* C10: the score of every retrieved chunk is the number of distinct query
\* terms of length >= 3 found in its lowercased text, plus 2 if its source
\* name without extension occurs in the lowercased query; a chunk left out
\* scores 0 by that count; a term repeated in the query counts once.
C10_ScoreCountsDistinctTerms ==
    retrieveByKeywordsReturned =>
        /\ \A i \in DOMAIN ret : ret[i].score = DistinctTermScore(call.query, ret[i])
        /\ Len(ret) < call.k =>
              \A j \in DOMAIN call.chunks :
                  DistinctTermScore(call.query, call.chunks[j]) = 0
                      <=> \A i \in DOMAIN ret : ret[i].source # call.chunks[j].source
                                                 \/ ret[i].text # call.chunks[j].text


(***************************************************************************)
\* the score the call gives the pool's chunk i
PoolScore(i) == chunkScore(toLowerCase(call.query), queryTerms(toLowerCase(call.query)), call.chunks[i])

\* the positions of the pool whose chunk scores more than 0
Scoring == {i \in DOMAIN call.chunks : PoolScore(i) > 0}

\* the place of position i among the scoring ones: behind every higher score
\* and behind the earlier positions of equal score
PlaceOf(i) ==
    1 + Cardinality({j \in Scoring : \/ PoolScore(j) > PoolScore(i)
                                     \/ PoolScore(j) = PoolScore(i) /\ j < i})

\* C11: the result is the first k of the pool's chunks that score more than
\* 0, by descending score and, among equal scores, in pool order; no chunk
\* scoring 0 is in it and it has at most k elements.
C11_RetrievalResult ==
    retrieveByKeywordsReturned =>
        /\ Len(ret) = IF call.k < Cardinality(Scoring) THEN call.k ELSE Cardinality(Scoring)
        /\ \A n \in DOMAIN ret :
              \E i \in Scoring :
                  /\ PlaceOf(i) = n
                  /\ ret[n].source = call.chunks[i].source
                  /\ ret[n].text = call.chunks[i].text
                  /\ ret[n].score > 0

\* two different chunks of equal score are ranked and the second is cut off
C11_Witness ==
    /\ retrieveByKeywordsReturned
    /\ Len(call.chunks) = 2
    /\ call.chunks[1] # call.chunks[2]
    /\ Scoring = {1, 2}
    /\ PoolScore(1) = PoolScore(2)
    /\ call.k = 1
    /\ Len(ret) = 1
    /\ ret[1].text = call.chunks[1].text

(* SpecPrompt: buildAssistantInstructions applied to loaded snapshots,     *)
(* messages and requested ids                                              *)
(***************************************************************************)

MaxKnowledge == 3

MaxKnowledgeFiles == 2

PublicFile == <<"p","u","b","l","i","c",".","m","d">>

PrivateFile == <<"p","r","i","v","a","t","e",".","m","d">>

PromptChunks ==
    { [source |-> PublicFile, text |-> <<"r","a","t","e","s"," ","a","r","e"," ","l","o","w">>],
      [source |-> PublicFile, text |-> <<"h","e","l","l","o"," ","w","o","r","l","d">>],
      [source |-> PrivateFile, text |-> <<"p","r","i","v","a","t","e"," ","d","i","a","r","y"," ","o","f"," ","r","a","t","e","s">>],
      [source |-> PrivateFile, text |-> <<"d","i","a","r","y">> ] }

\* the values of a persona's knowledgeFiles: every list of file names up to
\* MaxKnowledgeFiles long
KnowledgeFileLists == UNION {[1..n -> {PublicFile, PrivateFile}] : n \in 0..MaxKnowledgeFiles}

\* the default persona, without an allow-list or with the allow-list files
DefaultPersonas ==
    {[name |-> <<"S","u","n","n","y"," ","S","i","n","g","h">>]}
    \cup {[name |-> <<"S","u","n","n","y"," ","S","i","n","g","h">>, knowledgeFiles |-> files] : files \in KnowledgeFileLists}

PromptStores ==
    { [default |-> <<"d","e","f","a","u","l","t">>,
       profiles |-> << [key |-> <<"d","e","f","a","u","l","t">>, value |-> p],
                       [key |-> <<"a","n","a">>,
                        value |-> [aliases |-> <<<<"a","n","n","i","e">>>>, tone |-> <<"w","a","r","m">>,
                                   knowledgeFiles |-> <<PrivateFile>>]] >>] :
      p \in DefaultPersonas }

LegacyProfiles == { <<>>, [name |-> <<"S","a","n","k","a","l","p">>, tone |-> <<"c","a","s","u","a","l">>] }

PromptMessages == { <<"p","r","i","v","a","t","e"," ","d","i","a","r","y"," ","r","a","t","e","s">>, <<"w","h","a","t"," ","a","r","e"," ","y","o","u","r"," ","r","a","t","e","s">>, <<"h","i"," ","a","n","n","i","e"," ","d","i","a","r","y">>, <<"h","e","l","l","o">> }

InitPrompt ==
    /\ LEGACY_PROFILE \in LegacyProfiles
    /\ PROFILES \in PromptStores
    /\ KNOWLEDGE_CHUNKS \in UNION {[1..n -> PromptChunks] : n \in 0..MaxKnowledge}
    /\ KNOWLEDGE_LAST_LOADED_AT = 0
    /\ NoProcess
    /\ disk = EmptyDisk
    /\ \E m \in PromptMessages, id \in {<<>>, <<"a","n","a">>} :
          call = [fn |-> "buildAssistantInstructions", pc |-> "called",
                  userMessage |-> m, profileId |-> id]
    /\ ret = <<>>

Return_buildAssistantInstructions ==
    /\ call.fn = "buildAssistantInstructions"
    /\ call.pc = "called"
    /\ ret' = buildAssistantInstructions(call.userMessage, call.profileId)
    /\ call' = [call EXCEPT !.pc = "returned"]
    /\ ServerUnchanged

NextPrompt == Return_buildAssistantInstructions

SpecPrompt == InitPrompt /\ [][NextPrompt]_vars

buildAssistantInstructionsReturned ==
    call.fn = "buildAssistantInstructions" /\ call.pc = "returned"

\* the persona the grounding text was built for
ActivePersona == getActiveProfile(call.profileId, call.userMessage)

\* C3: when the active persona's knowledgeFiles is a list, every excerpt of
\* the grounding text has a source in that list, and no chunk of the snapshot
\* from a file outside the list is rendered into the text.
C3_KnowledgeIsolation ==
    buildAssistantInstructionsReturned /\ "knowledgeFiles" \in DOMAIN ActivePersona =>
        LET allowed == Range(ActivePersona.knowledgeFiles)
        IN  /\ \A i \in DOMAIN ret.top : ret.top[i].source \in allowed
            /\ \A j \in DOMAIN KNOWLEDGE_CHUNKS :
                  KNOWLEDGE_CHUNKS[j].source \notin allowed =>
                      ~includes(ret.knowledgeBlock, excerpt(KNOWLEDGE_CHUNKS[j]))

\* the score the retriever gives chunk ch for the message of the call
MessageScore(ch) ==
    chunkScore(toLowerCase(call.userMessage), queryTerms(toLowerCase(call.userMessage)), ch)

\* the text holds an allowed excerpt while a chunk outside the list scores
\* higher than every allowed chunk
C3_Witness ==
    /\ buildAssistantInstructionsReturned
    /\ "knowledgeFiles" \in DOMAIN ActivePersona
    /\ ret.top # <<>>
    /\ \E j \in DOMAIN KNOWLEDGE_CHUNKS :
          /\ KNOWLEDGE_CHUNKS[j].source \notin Range(ActivePersona.knowledgeFiles)
          /\ \A i \in DOMAIN KNOWLEDGE_CHUNKS :
                KNOWLEDGE_CHUNKS[i].source \in Range(ActivePersona.knowledgeFiles) =>
                    MessageScore(KNOWLEDGE_CHUNKS[j]) > MessageScore(KNOWLEDGE_CHUNKS[i])


(***************************************************************************)
(* Spec: the server.  initRAG runs at startup, from the 5-minute timer and *)
(* from GET /api/reload-knowledge; POST /api/chat reads the globals.  Each *)
(* action is one run of the event loop between two awaits.                 *)
(***************************************************************************)

DiskA ==
    [legacy |-> [status |-> "ok", json |-> [name |-> <<"S","a","n","k","a","l","p">>, tone |-> <<"c","a","s","u","a","l">>]],
     profiles |->
        [status |-> "ok",
         json |-> [type |-> "object",
                   entries |-> <<
                      [key |-> <<"d","e","f","a","u","l","t">>, type |-> "string", value |-> <<"d","e","f","a","u","l","t">>],
                      [key |-> <<"p","r","o","f","i","l","e","s">>, type |-> "object",
                       value |-> << [key |-> <<"d","e","f","a","u","l","t">>,
                                     value |-> [name |-> <<"S","u","n","n","y"," ","S","i","n","g","h">>,
                                                knowledgeFiles |-> <<<<"p","u","b","l","i","c",".","m","d">>>>]],
                                    [key |-> <<"a","n","a">>,
                                     value |-> [aliases |-> <<<<"a","n","n","i","e">>>>,
                                                knowledgeFiles |-> <<<<"p","r","i","v","a","t","e",".","m","d">>>>]] >>] >>]],
     knowledge |->
        [status |-> "ok",
         files |-> << [name |-> <<"p","u","b","l","i","c",".","m","d">>, status |-> "ok", text |-> <<"r","a","t","e","s"," ","a","r","e"," ","l","o","w","\n","\n","\n","h","e","l","l","o">>],
                      [name |-> <<"p","r","i","v","a","t","e",".","m","d">>, status |-> "ok", text |-> <<"d","i","a","r","y">>],
                      [name |-> <<"n","o","t","e","s",".","t","x","t">>, status |-> "ok", text |-> <<"r","a","t","e","s">>] >>]]

\* the files after an edit: a flat personas document, one knowledge file left
DiskB ==
    [legacy |-> [status |-> "ok", json |-> <<>>],
     profiles |->
        [status |-> "ok",
         json |-> [type |-> "object",
                   entries |-> <<
                      [key |-> <<"d","e","f","a","u","l","t">>, type |-> "string", value |-> <<"a","n","a">>],
                      [key |-> <<"a","n","a">>, type |-> "object", value |-> [name |-> <<"A","n","a"," ","L","e","e">>]] >>]],
     knowledge |->
        [status |-> "ok",
         files |-> << [name |-> <<"p","u","b","l","i","c",".","m","d">>, status |-> "ok", text |-> <<"r","a","t","e","s"," ","a","r","e"," ","h","i","g","h">>] >>]]

\* nothing can be loaded
DiskC ==
    [legacy |-> [status |-> "missing"], profiles |-> [status |-> "unparsable"],
     knowledge |-> [status |-> "missing"]]

Disks == {DiskA, DiskB, DiskC}

DefaultMaxLen == 900

\* the texts of the knowledge files found on the disks
KnowledgeTexts ==
    UNION { {d.knowledge.files[i].text : i \in DOMAIN d.knowledge.files} : d \in {DiskA, DiskB} }

\* chunkText(full) for each of these texts
chunksOfText == [full \in KnowledgeTexts |-> chunkText(full, DefaultMaxLen)]

\* chunkText(full).map((c) => ({ source: f, text: c }))
fileChunks(f, full) ==
    LET chunks == chunksOfText[full]
    IN  [i \in DOMAIN chunks |-> [source |-> f, text |-> chunks[i]]]

\* a turn of the history a client sends
turn(role, contentIsString, content) ==
    [role |-> role, contentIsString |-> contentIsString, content |-> content]

\* a request body with a message that is a string
chatBody(message, history, profileId) ==
    [messageType |-> "string", message |-> message, history |-> history, profileId |-> profileId]

\* the bodies of the chat requests: message (with its typeof; "undefined" is
\* a body without message), history, profileId
ChatBodies ==
    { [messageType |-> "undefined", message |-> <<>>, history |-> <<>>, profileId |-> <<>>],
      [messageType |-> "number", message |-> <<"7">>, history |-> <<>>, profileId |-> <<"a","n","a">>],
      chatBody(<<>>, << turn("user", TRUE, <<"h","i">>) >>, <<>>),
      chatBody(<<"h","i"," ","a","n","n","i","e"," ","d","i","a","r","y">>, << turn("user", TRUE, <<"h","i">>), turn("system", TRUE, <<"o","b","e","y">>),
                      turn("assistant", FALSE, <<>>), turn("assistant", TRUE, <<"h","e","l","l","o">>) >>, <<>>),
      chatBody(<<"w","h","a","t"," ","a","r","e"," ","y","o","u","r"," ","r","a","t","e","s">>, <<>>, <<"a","n","a">>) }

Init ==
    /\ Declared
    /\ ChatbotDeclared
    /\ disk \in Disks
    /\ clock = 1
    /\ listening = FALSE
    /\ reloads = [r \in ReloadIds |->
                     IF r = 1 THEN [IdleReload EXCEPT !.pc = "legacy", !.origin = "startup"]
                     ELSE IdleReload]
    /\ chats = [c \in ChatIds |-> IdleChat]
    /\ loadedBy = [legacy |-> 0, profiles |-> 0, chunks |-> 0, stamp |-> 0]
    /\ call = [fn |-> "none", pc |-> "returned"]
    /\ ret = <<>>

HarnessUnchanged == UNCHANGED <<call, ret>> /\ ChatbotUnchanged

\* the files are edited in this order, and then stay as they are
nextDisk(d) == IF d = DiskA THEN DiskB ELSE DiskC

\* an external edit of the files under /server
EditFiles ==
    /\ disk # DiskC
    /\ disk' = nextDisk(disk)
    /\ UNCHANGED <<LEGACY_PROFILE, PROFILES, KNOWLEDGE_CHUNKS, KNOWLEDGE_LAST_LOADED_AT,
                   clock, listening, reloads, chats, loadedBy>>
    /\ HarnessUnchanged

\* initRAG is called (origin: the timer's callback or the reload endpoint) and
\* runs up to the await of fs.readFile in loadLegacyProfile
StartReload(origin) ==
    /\ listening
    /\ \E r \in ReloadIds :
          /\ reloads[r].pc = "idle"
          /\ \A q \in ReloadIds : q < r => reloads[q].pc # "idle"
          /\ reloads' = [reloads EXCEPT ![r] = [IdleReload EXCEPT !.pc = "legacy", !.origin = origin]]
    /\ UNCHANGED <<LEGACY_PROFILE, PROFILES, KNOWLEDGE_CHUNKS, KNOWLEDGE_LAST_LOADED_AT,
                   disk, clock, listening, chats, loadedBy>>
    /\ HarnessUnchanged

\* setInterval(initRAG, 5 * 60 * 1000)
TimerFires == StartReload("timer")

\* GET /api/reload-knowledge, up to its await
ReloadRequest == StartReload("manual")

\* LEGACY_PROFILE = await loadLegacyProfile(), then loadProfiles starts its read
ReloadLegacy(r) ==
    /\ reloads[r].pc = "legacy"
    /\ LEGACY_PROFILE' = loadLegacyProfile(disk.legacy)
    /\ loadedBy' = [loadedBy EXCEPT !.legacy = r]
    /\ reloads' = [reloads EXCEPT ![r].pc = "profiles"]
    /\ UNCHANGED <<PROFILES, KNOWLEDGE_CHUNKS, KNOWLEDGE_LAST_LOADED_AT,
                   disk, clock, listening, chats>>
    /\ HarnessUnchanged

\* PROFILES = await loadProfiles(), then loadKnowledge starts fs.readdir
ReloadProfiles(r) ==
    /\ reloads[r].pc = "profiles"
    /\ PROFILES' = loadProfiles(disk.profiles)
    /\ loadedBy' = [loadedBy EXCEPT !.profiles = r]
    /\ reloads' = [reloads EXCEPT ![r].pc = "readdir"]
    /\ UNCHANGED <<LEGACY_PROFILE, KNOWLEDGE_CHUNKS, KNOWLEDGE_LAST_LOADED_AT,
                   disk, clock, listening, chats>>
    /\ HarnessUnchanged

\* the meta of the reload endpoint's answer
reloadMeta(profiles, loadedAt, chunks) ==
    [defaultProfile |-> IF profiles.default # <<>> THEN profiles.default ELSE DefaultId,
     profiles |-> Len(profiles.profiles),
     knowledgeLoadedAt |-> loadedAt,
     chunks |-> Len(chunks)]

\* KNOWLEDGE_CHUNKS = await loadKnowledge(); KNOWLEDGE_LAST_LOADED_AT = new
\* Date().toISOString(); then the caller's continuation: the startup goes on to
\* setInterval and app.listen, the reload endpoint answers with the meta
FinishReload(r, all) ==
    /\ KNOWLEDGE_CHUNKS' = all
    /\ \E now \in {clock, clock + 1} :
          /\ clock' = now
          /\ KNOWLEDGE_LAST_LOADED_AT' = now
    /\ loadedBy' = [loadedBy EXCEPT !.chunks = r, !.stamp = r]
    /\ reloads' = [reloads EXCEPT ![r] =
                      [pc |-> "done", origin |-> reloads[r].origin, files |-> <<>>, all |-> <<>>,
                       response |-> IF reloads[r].origin = "manual"
                                    THEN reloadMeta(PROFILES, KNOWLEDGE_LAST_LOADED_AT', all)
                                    ELSE <<>>]]
    /\ listening' = (listening \/ reloads[r].origin = "startup")
    /\ UNCHANGED <<LEGACY_PROFILE, PROFILES, disk, chats>>
    /\ HarnessUnchanged

\* the names fs.readdir returns that end in ".md"
mdFiles(dir) ==
    LET names == [i \in DOMAIN dir.files |-> dir.files[i].name]
        RECURSIVE keepMd(_)
        keepMd(fs) == IF fs = <<>> THEN <<>>
                      ELSE IF endsWithMd(Head(fs)) THEN <<Head(fs)>> \o keepMd(Tail(fs))
                      ELSE keepMd(Tail(fs))
    IN  keepMd(names)

\* a plausible slip: the chunks are collected onto the ones already loaded
emptyAll_ontoLoaded == KNOWLEDGE_CHUNKS

\* const all = []
emptyAll == <<>>

\* loadKnowledge: fs.readdir answers; a failure, or no .md file, ends the load
ReloadReaddir(r) ==
    /\ reloads[r].pc = "readdir"
    /\ IF disk.knowledge.status # "ok" THEN FinishReload(r, <<>>)
       ELSE IF mdFiles(disk.knowledge) = <<>> THEN FinishReload(r, <<>>)
       ELSE /\ reloads' = [reloads EXCEPT ![r].pc = "files",
                                          ![r].files = mdFiles(disk.knowledge),
                                          ![r].all = emptyAll]
            /\ UNCHANGED <<LEGACY_PROFILE, PROFILES, KNOWLEDGE_CHUNKS, KNOWLEDGE_LAST_LOADED_AT,
                           disk, clock, listening, chats, loadedBy>>
            /\ HarnessUnchanged

\* a plausible slip: a failed read of one file is skipped over
readable_anyListedFile(f) ==
    /\ disk.knowledge.status = "ok"
    /\ \E i \in DOMAIN disk.knowledge.files : disk.knowledge.files[i].name = f

\* the file f as it is on disk now
readable(f) ==
    /\ disk.knowledge.status = "ok"
    /\ \E i \in DOMAIN disk.knowledge.files :
          disk.knowledge.files[i].name = f /\ disk.knowledge.files[i].status = "ok"

contentOf(f) ==
    disk.knowledge.files[CHOOSE i \in DOMAIN disk.knowledge.files :
                             disk.knowledge.files[i].name = f].text

\* loadKnowledge: fs.readFile of the next file answers; a failure ends the
\* load with [], the last file ends it with every chunk collected
ReloadReadFile(r) ==
    /\ reloads[r].pc = "files"
    /\ LET f == Head(reloads[r].files)
           all == reloads[r].all \o fileChunks(f, contentOf(f))
       IN  IF ~readable(f) THEN FinishReload(r, <<>>)
           ELSE IF Tail(reloads[r].files) = <<>> THEN FinishReload(r, all)
           ELSE /\ reloads' = [reloads EXCEPT ![r].files = Tail(reloads[r].files),
                                              ![r].all = all]
                /\ UNCHANGED <<LEGACY_PROFILE, PROFILES, KNOWLEDGE_CHUNKS,
                               KNOWLEDGE_LAST_LOADED_AT, disk, clock, listening, chats, loadedBy>>
                /\ HarnessUnchanged

HistoryLimit == 20

RECURSIVE keepTurns(_)
\* history.filter((m) => m && (m.role === "user" || m.role === "assistant")
\*                         && typeof m.content === "string")
keepTurns(history) ==
    IF history = <<>> THEN <<>>
    ELSE IF Head(history).role \in {"user", "assistant"} /\ Head(history).contentIsString
    THEN <<Head(history)>> \o keepTurns(Tail(history))
    ELSE keepTurns(Tail(history))

\* a plausible slip: the oldest turns are kept
lastTurns_fromStart(turns) ==
    SubSeq(turns, 1, IF Len(turns) > HistoryLimit THEN HistoryLimit ELSE Len(turns))

\* .slice(-20)
lastTurns(turns) ==
    SubSeq(turns, IF Len(turns) > HistoryLimit THEN Len(turns) - HistoryLimit + 1 ELSE 1, Len(turns))

\* const messages = [...safeHistory.map(...), { role: "user", content: message }]
chatInput(history, message) ==
    LET safeHistory == lastTurns(keepTurns(history))
    IN  [i \in DOMAIN safeHistory |-> [role |-> safeHistory[i].role, content |-> safeHistory[i].content]]
        \o << [role |-> "user", content |-> message] >>

\* whether buildAssistantInstructions evaluates LEGACY_PROFILE for this persona
readsLegacy(active) ==
    \/ ~("name" \in DOMAIN active /\ active.name # <<>>)
    \/ ~("tone" \in DOMAIN active /\ active.tone # <<>>)

\* a plausible slip: only the type of the message is looked at
rejected_unlessString(body) == body.messageType # "string"

\* !message || typeof message !== "string"
rejected(body) == body.messageType # "string" \/ body.message = <<>>

\* POST /api/chat up to its await: validation, history, persona, grounding
\* text, and the completion call sent; readFrom and groundedOn note which
\* snapshot the globals held when the grounding text was built
ChatRequest(c) ==
    /\ listening
    /\ chats[c].pc = "idle"
    /\ \A b \in ChatIds : b < c => chats[b].pc # "idle"
    /\ \E body \in ChatBodies :
          LET message == body.message
              history == body.history
              profileId == body.profileId
          IN
          IF rejected(body)
          THEN chats' = [chats EXCEPT ![c] = [pc |-> "done", status |-> 400, body |-> body]]
          ELSE LET active == getActiveProfile(profileId, message)
               IN  chats' = [chats EXCEPT ![c] =
                        [pc |-> "awaiting", body |-> body,
                         message |-> message, profileId |-> profileId,
                         active |-> active,
                         instructions |-> buildAssistantInstructions(message, profileId),
                         input |-> chatInput(history, message),
                         readFrom |-> [f \in (IF readsLegacy(active) THEN {"legacy"} ELSE {})
                                               \cup {"profiles", "chunks"} |-> loadedBy[f]],
                         groundedOn |-> [knowledgeLoadedAt |-> KNOWLEDGE_LAST_LOADED_AT,
                                         chunks |-> Len(KNOWLEDGE_CHUNKS)]]]
    /\ UNCHANGED <<LEGACY_PROFILE, PROFILES, KNOWLEDGE_CHUNKS, KNOWLEDGE_LAST_LOADED_AT,
                   disk, clock, listening, reloads, loadedBy>>
    /\ HarnessUnchanged

\* the completion call answers (or fails) and the handler responds
ChatRespond(c) ==
    /\ chats[c].pc = "awaiting"
    /\ \/ chats' = [chats EXCEPT ![c] =
                       [chats[c] EXCEPT !.pc = "done"] @@
                       [status |-> 200,
                        meta |-> [activeProfileId |-> chats[c].active.id,
                                  knowledgeLoadedAt |-> KNOWLEDGE_LAST_LOADED_AT,
                                  chunks |-> Len(KNOWLEDGE_CHUNKS),
                                  stampBy |-> loadedBy.stamp, chunksBy |-> loadedBy.chunks]]]
       \/ chats' = [chats EXCEPT ![c] = [chats[c] EXCEPT !.pc = "done"] @@ [status |-> 500]]
    /\ UNCHANGED <<LEGACY_PROFILE, PROFILES, KNOWLEDGE_CHUNKS, KNOWLEDGE_LAST_LOADED_AT,
                   disk, clock, listening, reloads, loadedBy>>
    /\ HarnessUnchanged

Next ==
    \/ EditFiles
    \/ TimerFires
    \/ ReloadRequest
    \/ \E r \in ReloadIds : ReloadLegacy(r)
    \/ \E r \in ReloadIds : ReloadProfiles(r)
    \/ \E r \in ReloadIds : ReloadReaddir(r)
    \/ \E r \in ReloadIds : ReloadReadFile(r)
    \/ \E c \in ChatIds : ChatRequest(c)
    \/ \E c \in ChatIds : ChatRespond(c)

Spec == Init /\ [][Next]_vars

\* the chat requests that have read the globals
ChatsThatRead == {c \in ChatIds : chats[c].pc = "awaiting"}

\* the executions of initRAG that have started and not yet made their last
\* assignment
ReloadsInProgress == {r \in ReloadIds : reloads[r].pc \notin {"idle", "done"}}

\* C1: the personas, the knowledge chunks and (when it is read) the legacy
\* profile a chat request reads while resolving the persona and building the
\* grounding text were all assigned by one and the same execution of initRAG.
C1_ChatReadsOneSnapshot ==
    \A c \in ChatsThatRead :
        \A f \in DOMAIN chats[c].readFrom, g \in DOMAIN chats[c].readFrom :
            chats[c].readFrom[f] = chats[c].readFrom[g]

\* C2: at most one execution of initRAG is in progress at any time.
C2_ReloadsSerialized == Cardinality(ReloadsInProgress) <= 1


(***************************************************************************)
(***************************************************************************)
(* SpecNormalize: normalizeProfiles applied to parsed persona documents    *)
(* of both shapes and to parsed values that are no mapping                 *)
(***************************************************************************)

MaxPersonas == 2

MaxArrayLen == 2

PersonaIds == { <<"a","n","a">>, <<"b","o","b">>, <<"d","e","f","a","u","l","t">>, <<"p","r","o","f","i","l","e","s">> }

PersonaRecords == { [name |-> <<"A","n","a"," ","L","e","e">>], [aliases |-> <<<<"a","n","n","i","e">>>>] }

DefaultIds == { <<"a","n","a">>, <<"d","e","f","a","u","l","t">>, <<"g","h","o","s","t">>, <<>> }

\* the mappings from persona ids to persona records, as ordered entries
Mappings ==
    { m \in UNION {[1..n -> [key : PersonaIds, value : PersonaRecords]] : n \in 0..MaxPersonas} :
        \A i \in DOMAIN m, j \in DOMAIN m : m[i].key = m[j].key => i = j }

\* the names of the fields of the persona records, as JSON keys
FieldKeys == [name |-> <<"n","a","m","e">>, aliases |-> <<"a","l","i","a","s","e","s">>]

\* a persona record read as a mapping: its fields in the order written
fieldEntries(record) ==
    LET present == [i \in 1..2 |-> IF i = 1 THEN "name" ELSE "aliases"]
        RECURSIVE from(_)
        from(i) == IF i > Len(present) THEN <<>>
                   ELSE IF present[i] \in DOMAIN record
                   THEN << [key |-> FieldKeys[present[i]], value |-> record[present[i]]] >> \o from(i + 1)
                   ELSE from(i + 1)
    IN  from(1)

\* JSON.parse of { "default": d, "profiles": M }
explicitShape(d, M) ==
    [type |-> "object",
     entries |-> << [key |-> <<"d","e","f","a","u","l","t">>, type |-> "string", value |-> d],
                    [key |-> <<"p","r","o","f","i","l","e","s">>, type |-> "object", value |-> M] >>]

\* JSON.parse of { "default": d, ...M }: for a key written twice the last
\* value stays, at the place of the first
flatShape(d, M) ==
    LET own == {i \in DOMAIN M : M[i].key = <<"d","e","f","a","u","l","t">>}
        first == IF own = {}
                 THEN [key |-> <<"d","e","f","a","u","l","t">>, type |-> "string", value |-> d]
                 ELSE [key |-> <<"d","e","f","a","u","l","t">>, type |-> "object",
                       value |-> M[CHOOSE i \in own : TRUE].value,
                       fields |-> fieldEntries(M[CHOOSE i \in own : TRUE].value)]
        rest == withoutKey(M, <<"d","e","f","a","u","l","t">>)
    IN  [type |-> "object",
         entries |-> <<first>> \o
                     [i \in DOMAIN rest |->
                         [key |-> rest[i].key, type |-> "object", value |-> rest[i].value,
                          fields |-> fieldEntries(rest[i].value)]]]

\* parsed values that are no mapping from ids to persona records
NonMappings ==
    { [type |-> "null"], [type |-> "number"], [type |-> "string"], [type |-> "boolean"] }
    \cup { [type |-> "array", items |-> items] :
              items \in UNION {[1..n -> PersonaRecords \cup {<<"a","n","a">>}] : n \in 0..MaxArrayLen} }

NormalizeCalls ==
    { [fn |-> "normalizeProfiles", pc |-> "called", shape |-> "explicit",
       raw |-> explicitShape(d, M), d |-> d, M |-> M] : d \in DefaultIds, M \in Mappings }
    \cup { [fn |-> "normalizeProfiles", pc |-> "called", shape |-> "flat",
            raw |-> flatShape(d, M), d |-> d, M |-> M] : d \in DefaultIds, M \in Mappings }
    \cup { [fn |-> "normalizeProfiles", pc |-> "called", shape |-> "none",
            raw |-> raw, d |-> <<>>, M |-> <<>>] : raw \in NonMappings }

InitNormalize ==
    /\ ServerInit
    /\ call \in NormalizeCalls
    /\ ret = <<>>

Return_normalizeProfiles ==
    /\ call.fn = "normalizeProfiles"
    /\ call.pc = "called"
    /\ ret' = normalizeProfiles(call.raw)
    /\ call' = [call EXCEPT !.pc = "returned"]
    /\ ServerUnchanged

NextNormalize == Return_normalizeProfiles

SpecNormalize == InitNormalize /\ [][NextNormalize]_vars

normalizeProfilesReturned == call.fn = "normalizeProfiles" /\ call.pc = "returned"

\* the canonical form of default id d with the personas of M
Canonical(d, M) == [default |-> d, profiles |-> M]

\* every persona of M is in the store under its id
AllPresent(store, M) ==
    \A i \in DOMAIN M :
        \E j \in DOMAIN store.profiles :
            store.profiles[j].key = M[i].key /\ store.profiles[j].value = M[i].value

\* both shapes of (d, M) normalize to the same value, which holds every
\* persona of M under its id
SameCanonicalForm ==
    /\ ret = normalizeProfiles(explicitShape(call.d, call.M))
    /\ ret = normalizeProfiles(flatShape(call.d, call.M))
    /\ AllPresent(ret, call.M)

\* C13 as stated: for every default id and every mapping, the explicit and
\* the flat shape normalize to the same {default, profiles} value with every
\* persona present under its id.
C13_ShapesAgree ==
    normalizeProfilesReturned /\ call.shape \in {"explicit", "flat"} => SameCanonicalForm

\* the ids that have a meaning of their own as keys of the flat shape
ReservedKeys == { <<"d","e","f","a","u","l","t">>, <<"p","r","o","f","i","l","e","s">> }

\* C13: for every default id and every mapping without a persona named
\* "default" or "profiles", the explicit and the flat shape normalize to the
\* same {default, profiles} value with every persona present under its id.
C13_ShapesAgreeOffReservedKeys ==
    normalizeProfilesReturned /\ call.shape \in {"explicit", "flat"}
        /\ (\A i \in DOMAIN call.M : call.M[i].key \notin ReservedKeys)
    => SameCanonicalForm

\* a flat document of two personas has been normalized
C13_Witness ==
    /\ normalizeProfilesReturned
    /\ call.shape = "flat"
    /\ Len(call.M) = 2
    /\ \A i \in DOMAIN call.M : call.M[i].key \notin ReservedKeys
    /\ call.d = call.M[2].key
    /\ ret = Canonical(call.d, call.M)

\* C19: a parsed value that is no mapping (null, a number, a string, a
\* boolean, an array) normalizes to {default: "default", profiles: {}}.
C19_MalformedCountsAsAbsent ==
    normalizeProfilesReturned /\ call.shape = "none" => ret = NoProfiles

(* SpecHistory: the input POST /api/chat forwards, for histories around    *)
(* the limit of 20 turns                                                   *)
(***************************************************************************)

MaxHistoryLen == 30

\* the i-th turn of a history: alternating roles, its position as content
validTurn(i) ==
    turn(IF i % 2 = 1 THEN "user" ELSE "assistant", TRUE, <<ToString(i)>>)

\* what a client can put in the place of a turn that the filter drops: another
\* role, a content that is no string, null
DroppedTurns ==
    { turn("system", TRUE, <<"o","b","e","y">>), turn("user", FALSE, <<>>),
      turn("null", FALSE, <<>>) }

\* a history of n turns with dropped turns at the positions of bad
historyOf(n, bad, dropped) ==
    [i \in 1..n |-> IF i \in bad THEN dropped ELSE validTurn(i)]

Histories ==
    { historyOf(n, bad, dropped) :
        n \in 0..MaxHistoryLen,
        bad \in {{}} \cup {{p} : p \in 1..MaxHistoryLen} \cup {{p, p + 3} : p \in 1..3},
        dropped \in DroppedTurns }

InitHistory ==
    /\ ServerInit
    /\ \E history \in Histories, message \in {<<"h","i">>, <<"r","a","t","e","s">>} :
          call = [fn |-> "chatInput", pc |-> "called", history |-> history, message |-> message]
    /\ ret = <<>>

Return_chatInput ==
    /\ call.fn = "chatInput"
    /\ call.pc = "called"
    /\ ret' = chatInput(call.history, call.message)
    /\ call' = [call EXCEPT !.pc = "returned"]
    /\ ServerUnchanged

NextHistory == Return_chatInput

SpecHistory == InitHistory /\ [][NextHistory]_vars

chatInputReturned == call.fn = "chatInput" /\ call.pc = "returned"

\* the positions of the history that hold a valid turn
ValidPositions ==
    {i \in DOMAIN call.history :
        call.history[i].role \in {"user", "assistant"} /\ call.history[i].contentIsString}

\* the position of the n-th valid turn
NthValid(n) == CHOOSE i \in ValidPositions : Cardinality({v \in ValidPositions : v <= i}) = n

\* how many turns are forwarded
Forwarded == IF Cardinality(ValidPositions) < 20 THEN Cardinality(ValidPositions) ELSE 20

\* C12: the forwarded input is the last min(n, 20) of the n valid history
\* turns, in their order, followed by the new user message as last element.
C12_HistoryTruncation ==
    chatInputReturned =>
        /\ Len(ret) = Forwarded + 1
        /\ ret[Len(ret)] = [role |-> "user", content |-> call.message]
        /\ \A j \in 1..Forwarded :
              LET at == NthValid(Cardinality(ValidPositions) - Forwarded + j)
              IN  ret[j] = [role |-> call.history[at].role, content |-> call.history[at].content]

\* 30 valid prior turns: exactly the most recent 20 are forwarded
C12_Witness ==
    /\ chatInputReturned
    /\ Cardinality(ValidPositions) = 30
    /\ Len(ret) = 21
    /\ ret[1].content = <<"11">>
    /\ ret[20].content = <<"30">>


(***************************************************************************)
(* SpecReload: initRAG run again and again, one execution after the        *)
(* other, over files that fail to load in every combination and do not     *)
(* change.  FairReload adds that every pending fs call settles.            *)
(***************************************************************************)

\* the knowledge directory of DiskA with its .md files readable or not
knowledgeWith(publicStatus, privateStatus) ==
    [status |-> "ok",
     files |-> << [DiskA.knowledge.files[1] EXCEPT !.status = publicStatus],
                  [DiskA.knowledge.files[2] EXCEPT !.status = privateStatus],
                  DiskA.knowledge.files[3] >>]

FailureDisks ==
    { [legacy |-> l, profiles |-> p, knowledge |-> k] :
        l \in {DiskA.legacy, [status |-> "missing"], [status |-> "unparsable"]},
        p \in {DiskA.profiles, DiskB.profiles, [status |-> "missing"], [status |-> "unparsable"]},
        k \in {[status |-> "missing"], [status |-> "ok", files |-> <<>>],
               [status |-> "ok", files |-> <<DiskA.knowledge.files[3]>>]}
              \cup {knowledgeWith(a, b) : a \in {"ok", "unreadable"}, b \in {"ok", "unreadable"}} }

InitReload ==
    /\ Declared
    /\ ChatbotDeclared
    /\ disk \in FailureDisks
    /\ clock = 1
    /\ listening = FALSE
    /\ reloads = [r \in ReloadIds |->
                     IF r = 1 THEN [IdleReload EXCEPT !.pc = "legacy", !.origin = "startup"]
                     ELSE IdleReload]
    /\ chats = [c \in ChatIds |-> IdleChat]
    /\ loadedBy = [legacy |-> 0, profiles |-> 0, chunks |-> 0, stamp |-> 0]
    /\ call = [fn |-> "none", pc |-> "returned"]
    /\ ret = <<>>

\* a step of the execution r of initRAG
ReloadStep(r) ==
    ReloadLegacy(r) \/ ReloadProfiles(r) \/ ReloadReaddir(r) \/ ReloadReadFile(r)

\* the next execution is triggered when no other is in progress
NextTrigger == ReloadsInProgress = {} /\ (TimerFires \/ ReloadRequest)

NextReload == NextTrigger \/ \E r \in ReloadIds : ReloadStep(r)

SpecReload == InitReload /\ [][NextReload]_vars

FairReload == SpecReload /\ WF_vars(\E r \in ReloadIds : ReloadStep(r))

\* the executions of initRAG that have made their last assignment
ReloadsDone == {r \in ReloadIds : reloads[r].pc = "done"}

\* the .md files of the knowledge directory, in directory order
MdPositions ==
    {i \in DOMAIN disk.knowledge.files : endsWithMd(disk.knowledge.files[i].name)}

\* the directory or one of its .md files cannot be read
KnowledgeFails ==
    \/ disk.knowledge.status # "ok"
    \/ \E i \in MdPositions : disk.knowledge.files[i].status # "ok"

RECURSIVE ChunksFrom(_)
\* the chunks of the .md files from position i on
ChunksFrom(i) ==
    IF i > Len(disk.knowledge.files) THEN <<>>
    ELSE (IF i \in MdPositions
          THEN fileChunks(disk.knowledge.files[i].name, disk.knowledge.files[i].text)
          ELSE <<>>) \o ChunksFrom(i + 1)

\* what a completed load leaves, component by component
LoadedPerComponent ==
    /\ disk.profiles.status # "ok" => PROFILES = NoProfiles
    /\ disk.profiles.status = "ok" => PROFILES = normalizeProfiles(disk.profiles.json)
    /\ disk.legacy.status # "ok" => LEGACY_PROFILE = <<>>
    /\ disk.legacy.status = "ok" => LEGACY_PROFILE = disk.legacy.json
    /\ KnowledgeFails => KNOWLEDGE_CHUNKS = <<>>
    /\ ~KnowledgeFails => KNOWLEDGE_CHUNKS = ChunksFrom(1)

\* C14: whatever fails to load, every execution of initRAG that starts
\* completes; after it the personas are the empty store when their file is
\* missing or unparsable, the chunks are empty when the directory or one of
\* its files is unreadable, and each component whose source loads is as loaded.
C14_FailuresSwallowedPerComponent ==
    /\ (ReloadsInProgress # {}) ~> (ReloadsInProgress = {})
    /\ [](ReloadsDone # {} /\ ReloadsInProgress = {} => LoadedPerComponent)

\* a load has completed with the personas file unparsable, one knowledge file
\* unreadable and the legacy profile loaded
C14_Witness ==
    /\ ReloadsDone # {} /\ ReloadsInProgress = {}
    /\ disk.profiles.status = "unparsable"
    /\ disk.knowledge.status = "ok"
    /\ \E i \in MdPositions : disk.knowledge.files[i].status = "unreadable"
    /\ \E i \in MdPositions : disk.knowledge.files[i].status = "ok"
    /\ disk.legacy.status = "ok"
    /\ PROFILES = NoProfiles
    /\ KNOWLEDGE_CHUNKS = <<>>
    /\ LEGACY_PROFILE = disk.legacy.json

\* the ids of the loaded personas
LoadedIds(store) == {store.profiles[i].key : i \in DOMAIN store.profiles}

\* C16: with unchanged files, a reload run after another leaves the same
\* knowledge chunks, the same persona ids and the same default id: no step of
\* the later execution changes any of them.
C16_ReloadIdempotent ==
    [][\A r \in ReloadIds :
          r > 1 /\ reloads[r].pc # "idle" /\ reloads'[r] # reloads[r] =>
              /\ KNOWLEDGE_CHUNKS' = KNOWLEDGE_CHUNKS
              /\ LoadedIds(PROFILES') = LoadedIds(PROFILES)
              /\ PROFILES'.default = PROFILES.default]_vars

\* a second execution has completed over files that give chunks and personas
C16_Witness ==
    /\ reloads[2].pc = "done"
    /\ KNOWLEDGE_CHUNKS # <<>>
    /\ LoadedIds(PROFILES) # {}
    /\ loadedBy.chunks = 2 /\ loadedBy.profiles = 2


(***************************************************************************)
(* SpecSecret: buildAssistantInstructions applied twice to the same        *)
(* message and requested id, the personas replaced in between by personas  *)
(* that carry other fields                                                 *)
(***************************************************************************)

\* a record with the field f set to v, or left as it is when v is "absent"
withField(record, f, v) ==
    IF v = "absent" THEN record ELSE [g \in DOMAIN record \cup {f} |-> IF g = f THEN v ELSE record[g]]

\* persona records for the id ana: the fields the grounding text is built
\* from, present or not, and fields it is not built from
SecretPersonas ==
    { withField(withField(withField(withField(withField(
          [knowledgeFiles |-> <<PublicFile>>],
          "name", name), "tone", tone), "notes", notes), "apiKey", apiKey), "aliases", aliases) :
        name \in {"absent", <<"A","n","a"," ","L","e","e">>},
        tone \in {"absent", <<"w","a","r","m">>},
        notes \in {"absent", <<"l","i","k","e","s"," ","t","e","a">>},
        apiKey \in {"absent", <<"k","3","y">>, <<"t","0","k","e","n">>},
        aliases \in {"absent", <<<<"a","n","n","i","e">>>>} }

SecretStores ==
    { [default |-> <<"d","e","f","a","u","l","t">>,
       profiles |-> << [key |-> <<"d","e","f","a","u","l","t">>, value |-> [name |-> <<"S","u","n","n","y"," ","S","i","n","g","h">>, phone |-> <<"5","5","5","1","2","3","4">>]],
                       [key |-> <<"a","n","a">>, value |-> p] >>] : p \in SecretPersonas }

SecretChunks ==
    << [source |-> PublicFile, text |-> <<"r","a","t","e","s"," ","a","r","e"," ","l","o","w">>],
       [source |-> PrivateFile, text |-> <<"d","i","a","r","y"," ","o","f"," ","r","a","t","e","s">>] >>

InitSecret ==
    /\ LEGACY_PROFILE \in LegacyProfiles
    /\ PROFILES \in SecretStores
    /\ KNOWLEDGE_CHUNKS = SecretChunks
    /\ KNOWLEDGE_LAST_LOADED_AT = 0
    /\ NoProcess
    /\ disk = EmptyDisk
    /\ \E m \in {<<"h","i"," ","a","n","n","i","e"," ","w","h","a","t"," ","a","r","e"," ","t","h","e"," ","r","a","t","e","s">>, <<"h","e","l","l","o">>}, id \in {<<>>, <<"a","n","a">>}, twin \in SecretStores :
          call = [fn |-> "buildAssistantInstructions", pc |-> "called",
                  userMessage |-> m, profileId |-> id, twin |-> twin]
    /\ ret = <<>>

\* PROFILES is assigned the other personas and the function is called again
\* with the same arguments; the first result and its persona are kept
ReplacePersonas ==
    /\ call.fn = "buildAssistantInstructions"
    /\ call.pc = "returned"
    /\ "twin" \in DOMAIN call
    /\ "first" \notin DOMAIN call
    /\ PROFILES' = call.twin
    /\ call' = [fn |-> "buildAssistantInstructions", pc |-> "called",
                userMessage |-> call.userMessage, profileId |-> call.profileId,
                twin |-> call.twin, first |-> ret,
                firstActive |-> getActiveProfile(call.profileId, call.userMessage)]
    /\ ret' = <<>>
    /\ UNCHANGED <<LEGACY_PROFILE, KNOWLEDGE_CHUNKS, KNOWLEDGE_LAST_LOADED_AT,
                   disk, clock, listening, reloads, chats, loadedBy>>
    /\ ChatbotUnchanged

NextSecret == Return_buildAssistantInstructions \/ ReplacePersonas

SpecSecret == InitSecret /\ [][NextSecret]_vars

\* the persona fields the claim lets the grounding text depend on
PromptFields == {"id", "name", "tone", "rules", "notes", "systemPrompt", "knowledgeFiles"}

AgreeOnPromptFields(a, b) ==
    \A f \in PromptFields :
        /\ f \in DOMAIN a <=> f \in DOMAIN b
        /\ f \in DOMAIN a => a[f] = b[f]

\* the string values of the active persona's other fields
OtherValues(active) ==
    (IF "apiKey" \in DOMAIN active THEN {active.apiKey} ELSE {})
    \cup (IF "phone" \in DOMAIN active THEN {active.phone} ELSE {})
    \cup (IF "aliases" \in DOMAIN active THEN Range(active.aliases) ELSE {})

\* the strings interpolated into the grounding text
RenderedStrings ==
    {ret.systemPrompt, ret.tone, ret.knowledgeBlock}
    \cup (IF "name" \in DOMAIN ret THEN {ret.name} ELSE {})
    \cup {ret.profileForPrompt[f] : f \in DOMAIN ret.profileForPrompt}

\* the strings the text may be built from: the persona's prompt fields (but
\* its knowledgeFiles), the legacy profile, the system prompt, the chunks
AllowedStrings(active) ==
    {active[f] : f \in (PromptFields \ {"knowledgeFiles"}) \cap DOMAIN active}
    \cup {LEGACY_PROFILE[f] : f \in DOMAIN LEGACY_PROFILE}
    \cup {SYSTEM_PROMPT, DefaultName, DefaultTone}
    \cup {KNOWLEDGE_CHUNKS[i].text : i \in DOMAIN KNOWLEDGE_CHUNKS}
    \cup {KNOWLEDGE_CHUNKS[i].source : i \in DOMAIN KNOWLEDGE_CHUNKS}

\* C15: two active personas that agree on id, name, tone, rules, notes,
\* systemPrompt and knowledgeFiles give the same grounding text for the same
\* snapshot, message and requested id; a value of another persona field that
\* is in none of the text's sources is in no part of the text.
C15_SecretNonInterference ==
    buildAssistantInstructionsReturned =>
        /\ "first" \in DOMAIN call /\ AgreeOnPromptFields(call.firstActive, ActivePersona)
              => ret = call.first
        /\ \A secret \in OtherValues(ActivePersona) :
              (\A allowed \in AllowedStrings(ActivePersona) : ~includes(allowed, secret))
                  => \A rendered \in RenderedStrings : ~includes(rendered, secret)

\* the persona ana was active twice, with different keys and the same prompt
\* fields, and the text had knowledge excerpts
C15_Witness ==
    /\ buildAssistantInstructionsReturned
    /\ "first" \in DOMAIN call
    /\ AgreeOnPromptFields(call.firstActive, ActivePersona)
    /\ "apiKey" \in DOMAIN call.firstActive /\ "apiKey" \in DOMAIN ActivePersona
    /\ call.firstActive.apiKey # ActivePersona.apiKey
    /\ "notes" \in DOMAIN ActivePersona
    /\ ret.variant = "knowledge"
    /\ ret = call.first


(***************************************************************************)
(* SpecChat: POST /api/chat on a loaded snapshot, no reload running        *)
(***************************************************************************)

InitChat ==
    /\ LEGACY_PROFILE \in LegacyProfiles
    /\ PROFILES \in PromptStores
    /\ KNOWLEDGE_CHUNKS = SecretChunks
    /\ KNOWLEDGE_LAST_LOADED_AT = 1
    /\ disk = EmptyDisk
    /\ ChatbotDeclared
    /\ clock = 1
    /\ listening = TRUE
    /\ reloads = [r \in ReloadIds |->
                     IF r = 1 THEN [IdleReload EXCEPT !.pc = "done", !.origin = "startup"]
                     ELSE IdleReload]
    /\ chats = [c \in ChatIds |-> IdleChat]
    /\ loadedBy = [legacy |-> 1, profiles |-> 1, chunks |-> 1, stamp |-> 1]
    /\ call = [fn |-> "none", pc |-> "returned"]
    /\ ret = <<>>

NextChat == \E c \in ChatIds : ChatRequest(c) \/ ChatRespond(c)

SpecChat == InitChat /\ [][NextChat]_vars

\* the message of the body is missing, empty or not a string
InvalidMessage(body) ==
    \/ body.messageType = "undefined"
    \/ body.messageType # "string"
    \/ body.messageType = "string" /\ body.message = <<>>

\* C17: a chat request whose message is missing, empty or not a string is
\* answered with status 400, no completion call is made for it and the
\* loaded snapshot is left unchanged.
C17_ChatValidatesMessage ==
    /\ [][\A c \in ChatIds :
             chats[c].pc = "idle" /\ chats'[c].pc # "idle" /\ InvalidMessage(chats'[c].body) =>
                 /\ chats'[c].pc = "done"
                 /\ chats'[c].status = 400
                 /\ "input" \notin DOMAIN chats'[c]
                 /\ UNCHANGED <<LEGACY_PROFILE, PROFILES, KNOWLEDGE_CHUNKS,
                                KNOWLEDGE_LAST_LOADED_AT>>]_vars
    /\ [](\A c \in ChatIds :
             chats[c].pc # "idle" /\ InvalidMessage(chats[c].body) =>
                 chats[c].pc = "done" /\ chats[c].status = 400)

\* a request with a number as message has been answered with 400
C17_Witness ==
    \E c \in ChatIds :
        /\ chats[c].pc = "done"
        /\ chats[c].body.messageType = "number"
        /\ chats[c].status = 400


(***************************************************************************)
(* SpecMail: POST /api/contact and POST /api/schedule-meeting              *)
(* (index.js:513-650).  call holds the request and the handler's position, *)
(* ret the response (status 0: none yet) and the emails Mailgun accepted.  *)
(***************************************************************************)

\* const { name, email, subject, message } = req.body, respectively
\* const { name, email, preferredDateTime, projectDescription } = req.body
requiredFields(endpoint) ==
    IF endpoint = "contact" THEN {"name", "email", "subject", "message"}
    ELSE {"name", "email", "preferredDateTime", "projectDescription"}

\* the values a field of the body is examined with (a number by its digits)
FieldValues ==
    { [type |-> "undefined"], [type |-> "string", value |-> <<>>],
      [type |-> "string", value |-> <<"x">>], [type |-> "number", value |-> <<"0">>] }

\* !v
falsy(v) ==
    \/ v.type = "undefined"
    \/ v.type = "string" /\ v.value = <<>>
    \/ v.type = "number" /\ v.value = <<"0">>

\* a plausible slip: only the sender is validated
anyFieldFalsy_senderOnly(endpoint, body) == falsy(body["name"]) \/ falsy(body["email"])

\* !name || !email || !subject || !message, respectively
\* !name || !email || !preferredDateTime || !projectDescription
anyFieldFalsy(endpoint, body) == \E f \in requiredFields(endpoint) : falsy(body[f])

InitMail ==
    /\ ServerInit
    /\ \E endpoint \in {"contact", "schedule-meeting"}, hasMailgun \in BOOLEAN :
          \E body \in [requiredFields(endpoint) -> FieldValues] :
              call = [fn |-> endpoint, pc |-> "received", body |-> body, hasMailgun |-> hasMailgun]
    /\ ret = [status |-> 0, success |-> FALSE, sent |-> <<>>]

\* the handler up to its first await: configuration, validation, and the
\* first mg.messages.create called
MailRequest ==
    /\ call.fn \in {"contact", "schedule-meeting"}
    /\ call.pc = "received"
    /\ IF ~call.hasMailgun
       THEN /\ ret' = [ret EXCEPT !.status = 500]
            /\ call' = [call EXCEPT !.pc = "responded"]
       ELSE IF anyFieldFalsy(call.fn, call.body)
       THEN /\ ret' = [ret EXCEPT !.status = 400]
            /\ call' = [call EXCEPT !.pc = "responded"]
       ELSE /\ ret' = ret
            /\ call' = [call EXCEPT !.pc = "sendingOwner"]
    /\ ServerUnchanged

\* a plausible slip: each send is caught on its own, and the confirmation is
\* sent whether or not the notification was accepted
OwnerMailSettles_confirmationAnyway ==
    /\ call.fn \in {"contact", "schedule-meeting"}
    /\ call.pc = "sendingOwner"
    /\ \/ ret' = [ret EXCEPT !.sent = Append(@, "owner")]
       \/ ret' = ret
    /\ call' = [call EXCEPT !.pc = "sendingRequester"]
    /\ ServerUnchanged

\* the email to the owner is accepted, and the one to the requester is sent
\* off; or Mailgun fails and the catch answers 500
OwnerMailSettles ==
    /\ call.fn \in {"contact", "schedule-meeting"}
    /\ call.pc = "sendingOwner"
    /\ \/ /\ ret' = [ret EXCEPT !.sent = Append(@, "owner")]
          /\ call' = [call EXCEPT !.pc = "sendingRequester"]
       \/ /\ ret' = [ret EXCEPT !.status = 500]
          /\ call' = [call EXCEPT !.pc = "responded"]
    /\ ServerUnchanged

\* the email to the requester is accepted and the handler answers success; or
\* Mailgun fails and the catch answers 500
RequesterMailSettles ==
    /\ call.fn \in {"contact", "schedule-meeting"}
    /\ call.pc = "sendingRequester"
    /\ \/ ret' = [ret EXCEPT !.sent = Append(@, "requester"), !.status = 200, !.success = TRUE]
       \/ ret' = [ret EXCEPT !.status = 500]
    /\ call' = [call EXCEPT !.pc = "responded"]
    /\ ServerUnchanged

NextMail == MailRequest \/ OwnerMailSettles \/ RequesterMailSettles

SpecMail == InitMail /\ [][NextMail]_vars

mailRequestReceived == call.fn \in {"contact", "schedule-meeting"}

\* the body lacks one of the endpoint's four required fields
LacksRequiredField ==
    \E f \in requiredFields(call.fn) :
        call.body[f].type = "undefined" \/ call.body[f] = [type |-> "string", value |-> <<>>]

\* C18: a contact or meeting request lacking one of its four required fields
\* never causes an email to be sent, never receives a success response, and
\* is answered with status 400 whenever Mailgun is configured.
C18_MailValidatesFields ==
    mailRequestReceived /\ LacksRequiredField =>
        /\ ret.sent = <<>>
        /\ call.pc \in {"received", "responded"}
        /\ ~ret.success /\ ret.status # 200
        /\ call.pc = "responded" /\ call.hasMailgun => ret.status = 400

\* a meeting request without projectDescription, everything else given, has
\* been answered with 400 by a server with Mailgun configured
C18_Witness ==
    /\ call.fn = "schedule-meeting"
    /\ call.pc = "responded"
    /\ call.hasMailgun
    /\ call.body["projectDescription"].type = "undefined"
    /\ \A f \in requiredFields(call.fn) \ {"projectDescription"} : ~falsy(call.body[f])
    /\ ret.status = 400
    /\ ret.sent = <<>>


(***************************************************************************)
(* SpecInfer: inferProfileIdFromMessage applied to stores of one or two    *)
(* personas and to messages that name none, one or both                    *)
(***************************************************************************)

\* persona records for the id ana, with or without a name and aliases
InferAnas ==
    { withField(withField(<<>>, "name", name), "aliases", aliases) :
        name \in {"absent", <<"A","n","a"," ","L","e","e">>, <<" ","A","n","a"," ","L","e","e">>, <<"A","N","A"," "," ","L","E","E">>},
        aliases \in {"absent", <<<<"a","n","n","i","e">>>>, <<<<" ","A","n","n","i","e"," ">>, <<" "," ">>>>} }

\* persona records for the id Bo
InferBos ==
    { withField(withField(<<>>, "name", name), "aliases", aliases) :
        name \in {"absent", <<"B","o"," ","R","a","y">>, <<"L","e","e">>, <<"B","o","b"," ","R","a","y">>, <<" ","B","o","b"," ","R","a","y">>},
        aliases \in {"absent", <<<<"6","8","2","2","1","9">>>>} }

InferStores ==
    { [default |-> <<"a","n","a">>, profiles |-> m] :
        m \in { << [key |-> <<"a","n","a">>, value |-> a] >> : a \in InferAnas }
              \cup { << [key |-> <<"a","n","a">>, value |-> a], [key |-> <<"B","o">>, value |-> b] >> :
                        a \in InferAnas, b \in InferBos }
              \cup { << [key |-> <<"B","o">>, value |-> b], [key |-> <<"a","n","a">>, value |-> a] >> :
                        a \in InferAnas, b \in InferBos } }
    \cup {NoProfiles}

InferMessages ==
    { <<"h","e","l","l","o"," ","t","h","e","r","e">>, <<"i","s"," ","A","n","a"," ","a","r","o","u","n","d">>, <<"a","s","k"," ","b","o"," ","o","r"," ","a","n","a">>, <<"H","i"," ","A","n","n","i","e">>, <<"m","r"," ","l","e","e"," ","p","l","e","a","s","e">>,
      <<"c","a","l","l"," ","1","6","8","2","2","1","9","0">>, <<"a","n","a"," ","l","e","e",","," ","b","o"," ","r","a","y">>, <<"b","a","n","a","n","a"," ","b","r","e","a","d">>, <<"c","a","l","l"," ","B","o","b"," ","n","o","w">> }

InitInfer ==
    /\ LEGACY_PROFILE = <<>>
    /\ PROFILES \in InferStores
    /\ KNOWLEDGE_CHUNKS = <<>>
    /\ KNOWLEDGE_LAST_LOADED_AT = 0
    /\ NoProcess
    /\ disk = EmptyDisk
    /\ \E m \in InferMessages :
          call = [fn |-> "inferProfileIdFromMessage", pc |-> "called", message |-> m]
    /\ ret = <<>>

Return_inferProfileIdFromMessage ==
    /\ call.fn = "inferProfileIdFromMessage"
    /\ call.pc = "called"
    /\ ret' = inferProfileIdFromMessage(call.message)
    /\ call' = [call EXCEPT !.pc = "returned"]
    /\ ServerUnchanged

NextInfer == Return_inferProfileIdFromMessage

SpecInfer == InitInfer /\ [][NextInfer]_vars

inferProfileIdFromMessageReturned ==
    call.fn = "inferProfileIdFromMessage" /\ call.pc = "returned"

\* the first whitespace-delimited token of a display name: its first run of
\* characters that are not whitespace
FirstWord(name) ==
    LET solid == {i \in DOMAIN name : name[i] \notin WhitespaceChars}
    IN  IF solid = {} THEN <<>>
        ELSE LET from == CHOOSE i \in solid : \A j \in solid : i <= j
                 stops == {i \in DOMAIN name : i > from /\ name[i] \in WhitespaceChars}
             IN  SubSeq(name, from,
                        IF stops = {} THEN Len(name)
                        ELSE (CHOOSE i \in stops : \A j \in stops : i <= j) - 1)

\* the terms of the persona p stored under id: its id, its display name, the
\* first token of the name, each alias, all lowercased
PersonaTerms(id, p) ==
    {toLowerCase(id)}
    \cup (IF "name" \in DOMAIN p THEN {toLowerCase(p.name), toLowerCase(FirstWord(p.name))} ELSE {})
    \cup (IF "aliases" \in DOMAIN p THEN {toLowerCase(p.aliases[i]) : i \in DOMAIN p.aliases} ELSE {})

\* the positions of the personas with a term that matches the message
Matching ==
    {i \in DOMAIN PROFILES.profiles :
        \E term \in PersonaTerms(PROFILES.profiles[i].key, PROFILES.profiles[i].value) :
            containsTerm(call.message, term)}

\* C20: the result is the id (lowercased, as the resolver compares ids) of
\* the first persona in mapping order with a term that matches the message,
\* and no persona exactly when no persona has a matching term.
C20_InferenceFirstMatchWins ==
    inferProfileIdFromMessageReturned =>
        /\ ret.isNull <=> Matching = {}
        /\ ~ret.isNull /\ Matching # {} =>
              ret.pid = normalizeProfileId(
                  PROFILES.profiles[CHOOSE i \in Matching : \A j \in Matching : i <= j].key)


(***************************************************************************)
(* SpecVariant: buildAssistantInstructions applied to pools with more      *)
(* chunks than the 6 it retrieves                                          *)
(***************************************************************************)

MaxPromptPool == 7

\* the texts of three kinds of chunk, numbered so that no two chunks are equal
VariantChunk(i) ==
    LET digit == <<"1","2","3","4","5","6","7","8","9">>[i]
    IN  IF i % 3 = 1 THEN [source |-> PublicFile, text |-> <<"r","a","t","e","s"," ","a","r","e"," ","l","o","w"," ">> \o <<digit>>]
        ELSE IF i % 3 = 2 THEN [source |-> PrivateFile, text |-> <<"d","i","a","r","y"," ">> \o <<digit>>]
        ELSE [source |-> PrivateFile, text |-> <<"p","r","i","v","a","t","e"," ","d","i","a","r","y"," ","o","f"," ","r","a","t","e","s"," ">> \o <<digit>>]

RECURSIVE chunksAt(_, _)
\* the chunks numbered by the set at, from number i on, in ascending order
chunksAt(at, i) ==
    IF i > MaxPromptPool THEN <<>>
    ELSE IF i \in at THEN <<VariantChunk(i)>> \o chunksAt(at, i + 1)
    ELSE chunksAt(at, i + 1)

\* the default persona without an allow-list or allowed the public file, and
\* ana allowed the private file
VariantStores ==
    { [default |-> <<"d","e","f","a","u","l","t">>,
       profiles |-> << [key |-> <<"d","e","f","a","u","l","t">>, value |-> p],
                       [key |-> <<"a","n","a">>, value |-> [knowledgeFiles |-> <<PrivateFile>>]] >>] :
      p \in { [name |-> <<"S","u","n","n","y"," ","S","i","n","g","h">>],
              [name |-> <<"S","u","n","n","y"," ","S","i","n","g","h">>, knowledgeFiles |-> <<PublicFile>>] } }

VariantMessages == { <<"p","r","i","v","a","t","e"," ","d","i","a","r","y"," ","r","a","t","e","s">>, <<"w","h","a","t"," ","a","r","e"," ","y","o","u","r"," ","r","a","t","e","s">>, <<"h","i">> }

InitVariant ==
    /\ LEGACY_PROFILE = <<>>
    /\ PROFILES \in VariantStores
    /\ \E at \in SUBSET (1..MaxPromptPool) : KNOWLEDGE_CHUNKS = chunksAt(at, 1)
    /\ KNOWLEDGE_LAST_LOADED_AT = 0
    /\ NoProcess
    /\ disk = EmptyDisk
    /\ \E m \in VariantMessages, id \in {<<>>, <<"a","n","a">>} :
          call = [fn |-> "buildAssistantInstructions", pc |-> "called",
                  userMessage |-> m, profileId |-> id]
    /\ ret = <<>>

NextVariant == Return_buildAssistantInstructions

SpecVariant == InitVariant /\ [][NextVariant]_vars

\* the positions of the snapshot's chunks that are in the active persona's pool
PoolPositions ==
    {i \in DOMAIN KNOWLEDGE_CHUNKS :
        "knowledgeFiles" \in DOMAIN ActivePersona =>
            \E f \in DOMAIN ActivePersona.knowledgeFiles :
                ActivePersona.knowledgeFiles[f] = KNOWLEDGE_CHUNKS[i].source}

\* those of them whose chunk scores above 0 for the message
ScoringPositions == {i \in PoolPositions : MessageScore(KNOWLEDGE_CHUNKS[i]) > 0}

\* the place of position i in retrieval order: behind every higher score and
\* behind the earlier positions of equal score
RetrievalPlace(i) ==
    1 + Cardinality({j \in ScoringPositions :
                        \/ MessageScore(KNOWLEDGE_CHUNKS[j]) > MessageScore(KNOWLEDGE_CHUNKS[i])
                        \/ MessageScore(KNOWLEDGE_CHUNKS[j]) = MessageScore(KNOWLEDGE_CHUNKS[i]) /\ j < i})

RECURSIVE BlockOf(_)
\* the chunks written as "[source]", a line break and the text, with "---"
\* between blank lines from one to the next
BlockOf(chunks) ==
    IF chunks = <<>> THEN <<>>
    ELSE <<"[">> \o Head(chunks).source \o <<"]","\n">> \o Head(chunks).text
         \o (IF Tail(chunks) = <<>> THEN <<>> ELSE <<"\n","\n","-","-","-","\n","\n">> \o BlockOf(Tail(chunks)))

\* the strings interpolated into the grounding text besides the knowledge block
TextOutsideBlock == {ret.systemPrompt, ret.tone} \cup Range(ret.rules)

\* C21: the grounding text has a knowledge block exactly when a chunk of the
\* active persona's pool scores above 0 for the message; the block then holds
\* the first 6 scoring chunks in retrieval order, each as its bracketed source
\* name and its text, separated by "---"; otherwise the text holds no excerpt
\* and has the instruction not to guess.
C21_PromptVariants ==
    buildAssistantInstructionsReturned =>
        IF ScoringPositions # {}
        THEN /\ ret.variant = "knowledge"
             /\ Len(ret.top) = (IF Cardinality(ScoringPositions) > 6 THEN 6
                                ELSE Cardinality(ScoringPositions))
             /\ \A n \in DOMAIN ret.top :
                   \E i \in ScoringPositions :
                       /\ RetrievalPlace(i) = n
                       /\ ret.top[n].source = KNOWLEDGE_CHUNKS[i].source
                       /\ ret.top[n].text = KNOWLEDGE_CHUNKS[i].text
             /\ ret.knowledgeBlock = BlockOf(ret.top)
        ELSE /\ ret.variant = "noKnowledge"
             /\ ret.knowledgeBlock = <<>>
             /\ \A i \in DOMAIN KNOWLEDGE_CHUNKS, s \in TextOutsideBlock :
                   ~includes(s, BlockOf(<<KNOWLEDGE_CHUNKS[i]>>))
             /\ \E s \in Range(ret.rules) : includes(s, <<"I"," ","d","o","n","'","t"," ","w","a","n","t"," ","t","o"," ","g","u","e","s","s">>)

\* a knowledge block of 6 excerpts from a pool with more than 6 scoring chunks
\* of different scores
C21_Witness ==
    /\ buildAssistantInstructionsReturned
    /\ Cardinality(ScoringPositions) > 6
    /\ \E i, j \in ScoringPositions :
          MessageScore(KNOWLEDGE_CHUNKS[i]) < MessageScore(KNOWLEDGE_CHUNKS[j]) /\ i < j
    /\ ret.variant = "knowledge"
    /\ Len(ret.top) = 6


(***************************************************************************)
(* The fallbacks of buildAssistantInstructions, under SpecPrompt           *)
(***************************************************************************)

\* field f of the active persona is absent or the empty string
PersonaLacks(f) == f \notin DOMAIN ActivePersona \/ ActivePersona[f] = <<>>

\* C22: without a persona tone the voice directive is the global default
\* tone "professional, confident, concise", and without a persona
\* systemPrompt the text starts with the global default system prompt, in
\* every loaded state; a persona's own tone or systemPrompt is used instead.
C22_PromptDefaults ==
    buildAssistantInstructionsReturned =>
        /\ ret.tone = (IF PersonaLacks("tone") THEN <<"p","r","o","f","e","s","s","i","o","n","a","l",","," ","c","o","n","f","i","d","e","n","t",","," ","c","o","n","c","i","s","e">>
                       ELSE ActivePersona.tone)
        /\ ret.systemPrompt = (IF PersonaLacks("systemPrompt") THEN SYSTEM_PROMPT
                               ELSE ActivePersona.systemPrompt)

(***************************************************************************)
(* The snapshot at rest and the meta of a chat response, under Spec        *)
(***************************************************************************)

\* the executions of initRAG that have made their last assignment
ReloadsFinished == {r \in ReloadIds : reloads[r].pc = "done"}

\* the execution of initRAG that started last (they start in the order of
\* their numbers)
LastStarted == CHOOSE r \in ReloadsFinished : \A q \in ReloadsFinished : q <= r

\* C23: whenever no execution of initRAG is in progress, the legacy profile,
\* the personas and the knowledge chunks held were all assigned by one
\* execution, KNOWLEDGE_LAST_LOADED_AT is that execution's timestamp, and
\* that execution is the one that started last.
C23_SnapshotConsistentAtRest ==
    ReloadsInProgress = {} /\ ReloadsFinished # {} =>
        /\ loadedBy.legacy = LastStarted
        /\ loadedBy.profiles = LastStarted
        /\ loadedBy.chunks = LastStarted
        /\ loadedBy.stamp = LastStarted

\* the chat requests answered with a reply
ChatsAnswered == {c \in ChatIds : chats[c].pc = "done" /\ chats[c].status = 200}

\* C24: the meta of a chat response describes the snapshot its grounding text
\* was built from: meta.chunks and meta.knowledgeLoadedAt are the chunk count
\* and the load timestamp the globals held when the request built its
\* grounding text, also when a reload completes while the completion call is
\* pending.
C24_MetaDescribesGroundingSnapshot ==
    \A c \in ChatsAnswered :
        /\ chats[c].meta.chunks = chats[c].groundedOn.chunks
        /\ chats[c].meta.knowledgeLoadedAt = chats[c].groundedOn.knowledgeLoadedAt

(***************************************************************************)
(* The chatbot of the page (src/js/chatbot.js).  A fetch is                *)
(* [endpoint |-> "chat" | "schedule", body |-> the JSON sent, turn |-> the  *)
(* position in conversationHistory of the user turn it was sent for, 0 for *)
(* a meeting request].                                                     *)
(***************************************************************************)

\* The texts the chatbot shows, character by character as everywhere; the
\* characters outside ASCII (bullets, emoji) are left out, the typographic
\* apostrophe and dash written as ' and -.

\* the reply of sendMessage to a message that starts the meeting flow (chatbot.js:150)
MeetingGreeting ==
    <<"I","'","d"," ","b","e"," ","h","a","p","p","y"," ","t","o"," ","h","e","l","p"," ","y","o","u"," ","s","c","h","e","d","u","l","e"," ","a"," ","m","e","e","t","i","n","g"," ","w","i","t","h"," ","<<",">>a","n","k","a","l","p","!","\n","\n","<<",">>a","n","k","a","l","p"," ","i","s"," ","a","v","a","i","l","a","b","l","e"," ","*","*","M","o","n","d","a","y"," ","t","h","r","o","u","g","h"," ","F","r","i","d","a","y",","," ","9"," ","A","M"," ","-"," ","6"," ","P","M"," ","C","<<",">>T","*","*",".","\n","\n","*","*","F","i","r","s","t",","," ","w","h","a","t"," ","i","s"," ","y","o","u","r"," ","n","a","m","e","?","*","*">>

\* getFallbackResponse: the reply of each branch (chatbot.js:225-326)
ExperienceReply ==
    <<"<<",">>a","n","k","a","l","p"," ","<<",">>i","n","g","h"," ","i","s"," ","a"," ","F","u","l","l"," ","<<",">>t","a","c","k"," ","D","e","v","e","l","o","p","e","r"," ","w","i","t","h"," ","e","x","t","e","n","s","i","v","e"," ","e","x","p","e","r","i","e","n","c","e"," ","i","n"," ","b","u","i","l","d","i","n","g"," ","c","o","m","p","l","e","t","e"," ","d","i","g","i","t","a","l"," ","s","o","l","u","t","i","o","n","s","."," ","H","i","s"," ","e","x","p","e","r","t","i","s","e"," ","s","p","a","n","s",":","\n","\n","*"," ","*","*","M","o","b","i","l","e"," ","D","e","v","e","l","o","p","m","e","n","t","*","*",":"," ","i","O","<<",">> ","a","n","d"," ","A","n","d","r","o","i","d"," ","a","p","p","s"," ","u","s","i","n","g"," ","R","e","a","c","t"," ","N","a","t","i","v","e","\n","*"," ","*","*","W","e","b"," ","D","e","v","e","l","o","p","m","e","n","t","*","*",":"," ","R","e","a","c","t",","," ","N","e","x","t",".","j","s",","," ","a","n","d"," ","m","o","d","e","r","n"," ","J","a","v","a","<<",">>c","r","i","p","t"," ","f","r","a","m","e","w","o","r","k","s","\n","*"," ","*","*","B","a","c","k","e","n","d"," ","<<",">>y","s","t","e","m","s","*","*",":"," ","N","o","d","e",".","j","s",","," ","E","x","p","r","e","s","s",","," ","F","i","r","e","b","a","s","e",","," ","a","n","d"," ","d","a","t","a","b","a","s","e"," ","m","a","n","a","g","e","m","e","n","t","\n","*"," ","*","*","3","D"," ","D","e","v","e","l","o","p","m","e","n","t","*","*",":"," ","B","l","e","n","d","e","r"," ","m","o","d","e","l","i","n","g"," ","a","n","d"," ","T","h","r","e","e",".","j","s"," ","v","i","s","u","a","l","i","z","a","t","i","o","n","s","\n","\n","A"," ","n","o","t","a","b","l","e"," ","p","r","o","j","e","c","t"," ","i","s"," ","R","a","d","i","o"," ","<<",">>a","n","g","a","m"," ","-"," ","a"," ","c","o","m","p","r","e","h","e","n","s","i","v","e"," ","m","o","b","i","l","e"," ","a","p","p"," ","f","o","r"," ","a"," ","D","a","l","l","a","s"," ","r","a","d","i","o"," ","s","t","a","t","i","o","n"," ","f","e","a","t","u","r","i","n","g"," ","l","i","v","e"," ","s","t","r","e","a","m","i","n","g",","," ","a"," ","p","o","i","n","t","s","-","b","a","s","e","d"," ","r","e","w","a","r","d","s"," ","s","y","s","t","e","m",","," ","a","n","d"," ","a"," ","c","u","s","t","o","m"," ","C","R","M"," ","d","a","s","h","b","o","a","r","d","."," ","W","o","u","l","d"," ","y","o","u"," ","l","i","k","e"," ","t","o"," ","k","n","o","w"," ","m","o","r","e"," ","a","b","o","u","t"," ","a","n","y"," ","s","p","e","c","i","f","i","c"," ","a","r","e","a","?">>

RatesReply ==
    <<"H","e","r","e"," ","a","r","e"," ","<<",">>a","n","k","a","l","p","'","s"," ","r","a","t","e","s",":","\n","\n","*"," ","*","*","H","o","u","r","l","y"," ","R","a","t","e","*","*",":"," ","<<",">>t","a","r","t","i","n","g"," ","a","t"," ","$","7","5","/","h","o","u","r","\n","*"," ","*","*","P","r","o","j","e","c","t","-","B","a","s","e","d","*","*",":"," ","C","u","s","t","o","m"," ","q","u","o","t","e","s"," ","b","a","s","e","d"," ","o","n"," ","s","c","o","p","e"," ","a","n","d"," ","r","e","q","u","i","r","e","m","e","n","t","s","\n","*"," ","*","*","C","o","n","s","u","l","t","a","t","i","o","n","*","*",":"," ","F","r","e","e"," ","3","0","-","m","i","n","u","t","e"," ","i","n","i","t","i","a","l"," ","c","o","n","s","u","l","t","a","t","i","o","n"," ","t","o"," ","d","i","s","c","u","s","s"," ","y","o","u","r"," ","p","r","o","j","e","c","t","\n","\n","F","o","r"," ","a","c","c","u","r","a","t","e"," ","p","r","o","j","e","c","t"," ","p","r","i","c","i","n","g",","," ","I","'","d"," ","r","e","c","o","m","m","e","n","d"," ","s","c","h","e","d","u","l","i","n","g"," ","a"," ","f","r","e","e"," ","c","o","n","s","u","l","t","a","t","i","o","n"," ","w","h","e","r","e"," ","<<",">>a","n","k","a","l","p"," ","c","a","n"," ","u","n","d","e","r","s","t","a","n","d"," ","y","o","u","r"," ","s","p","e","c","i","f","i","c"," ","n","e","e","d","s","."," ","W","o","u","l","d"," ","y","o","u"," ","l","i","k","e"," ","t","o"," ","b","o","o","k"," ","a"," ","c","a","l","l","?">>

ScheduleReply ==
    <<"I","'","d"," ","b","e"," ","h","a","p","p","y"," ","t","o"," ","h","e","l","p"," ","y","o","u"," ","s","c","h","e","d","u","l","e"," ","a"," ","m","e","e","t","i","n","g"," ","w","i","t","h"," ","<<",">>a","n","k","a","l","p","!","\n","\n","<<",">>a","n","k","a","l","p"," ","i","s"," ","a","v","a","i","l","a","b","l","e"," ","*","*","M","o","n","d","a","y"," ","t","h","r","o","u","g","h"," ","F","r","i","d","a","y",","," ","9"," ","A","M"," ","-"," ","6"," ","P","M"," ","C","<<",">>T","*","*",".","\n","\n","T","o"," ","b","o","o","k"," ","a"," ","m","e","e","t","i","n","g",","," ","I","'","l","l"," ","n","e","e","d"," ","a"," ","f","e","w"," ","d","e","t","a","i","l","s",":","\n","\n","*","*","F","i","r","s","t",","," ","w","h","a","t"," ","i","s"," ","y","o","u","r"," ","n","a","m","e","?","*","*">>

SkillsReply ==
    <<"<<",">>a","n","k","a","l","p","'","s"," ","t","e","c","h","n","i","c","a","l"," ","e","x","p","e","r","t","i","s","e"," ","i","n","c","l","u","d","e","s",":","\n","\n","*","*","F","r","o","n","t","e","n","d"," ","D","e","v","e","l","o","p","m","e","n","t","*","*","\n","R","e","a","c","t",","," ","R","e","a","c","t"," ","N","a","t","i","v","e",","," ","N","e","x","t",".","j","s",","," ","T","y","p","e","<<",">>c","r","i","p","t",","," ","T","a","i","l","w","i","n","d"," ","C","<<",">><<",">>,"," ","T","h","r","e","e",".","j","s",","," ","H","T","M","L","5","/","C","<<",">><<",">>3","\n","\n","*","*","B","a","c","k","e","n","d"," ","D","e","v","e","l","o","p","m","e","n","t","*","*","\n","N","o","d","e",".","j","s",","," ","E","x","p","r","e","s","s",".","j","s",","," ","F","i","r","e","b","a","s","e",","," ","M","o","n","g","o","D","B",","," ","P","o","s","t","g","r","e","<<",">>Q","L",","," ","R","E","<<",">>T"," ","A","P","I","s",","," ","G","r","a","p","h","Q","L","\n","\n","*","*","T","o","o","l","s"," ","&"," ","P","l","a","t","f","o","r","m","s","*","*","\n","G","i","t",","," ","D","o","c","k","e","r",","," ","A","W","<<",">>,"," ","V","e","r","c","e","l",","," ","B","l","e","n","d","e","r"," ","(","3","D",")",","," ","F","i","g","m","a",","," ","<<",">>t","r","i","p","e",","," ","M","a","i","l","g","u","n","\n","\n","H","e"," ","s","p","e","c","i","a","l","i","z","e","s"," ","i","n"," ","b","u","i","l","d","i","n","g"," ","e","n","d","-","t","o","-","e","n","d"," ","s","o","l","u","t","i","o","n","s"," ","f","r","o","m"," ","m","o","b","i","l","e"," ","a","p","p","s"," ","t","o"," ","w","e","b"," ","p","l","a","t","f","o","r","m","s"," ","w","i","t","h"," ","c","u","s","t","o","m"," ","b","a","c","k","e","n","d"," ","s","y","s","t","e","m","s","."," ","I","s"," ","t","h","e","r","e"," ","a"," ","s","p","e","c","i","f","i","c"," ","t","e","c","h","n","o","l","o","g","y"," ","y","o","u","'","d"," ","l","i","k","e"," ","t","o"," ","d","i","s","c","u","s","s","?">>

ContactReply ==
    <<"Y","o","u"," ","c","a","n"," ","r","e","a","c","h"," ","<<",">>a","n","k","a","l","p"," ","t","h","r","o","u","g","h",":","\n","\n"," ","*","*","P","h","o","n","e","*","*",":"," ","6","8","2","-","2","1","9","-","8","6","8","2","\n"," ","*","*","L","o","c","a","t","i","o","n","*","*",":"," ","D","a","l","l","a","s",","," ","T","e","x","a","s","\n"," ","*","*","R","e","s","p","o","n","s","e"," ","T","i","m","e","*","*",":"," ","W","i","t","h","i","n"," ","2","4"," ","h","o","u","r","s","\n","\n","Y","o","u"," ","c","a","n"," ","a","l","s","o"," ","f","i","l","l"," ","o","u","t"," ","t","h","e"," ","c","o","n","t","a","c","t"," ","f","o","r","m"," ","o","n"," ","t","h","i","s"," ","p","a","g","e",","," ","o","r"," ","I"," ","c","a","n"," ","h","e","l","p"," ","y","o","u"," ","s","c","h","e","d","u","l","e"," ","a"," ","c","a","l","l","."," ","W","h","a","t"," ","w","o","u","l","d"," ","y","o","u"," ","p","r","e","f","e","r","?">>

ServicesReply ==
    <<"<<",">>a","n","k","a","l","p"," ","o","f","f","e","r","s"," ","c","o","m","p","r","e","h","e","n","s","i","v","e"," ","d","e","v","e","l","o","p","m","e","n","t"," ","s","e","r","v","i","c","e","s",":","\n","\n","*"," ","*","*","C","u","s","t","o","m"," ","W","e","b"," ","A","p","p","l","i","c","a","t","i","o","n"," ","D","e","v","e","l","o","p","m","e","n","t","*","*","\n","*"," ","*","*","M","o","b","i","l","e"," ","A","p","p"," ","D","e","v","e","l","o","p","m","e","n","t","*","*"," ","(","i","O","<<",">> ","&"," ","A","n","d","r","o","i","d",")","\n","*"," ","*","*","F","u","l","l"," ","<<",">>t","a","c","k"," ","D","e","v","e","l","o","p","m","e","n","t","*","*","\n","*"," ","*","*","A","P","I"," ","D","e","v","e","l","o","p","m","e","n","t"," ","&"," ","I","n","t","e","g","r","a","t","i","o","n","*","*","\n","*"," ","*","*","D","a","t","a","b","a","s","e"," ","D","e","s","i","g","n"," ","&"," ","M","a","n","a","g","e","m","e","n","t","*","*","\n","*"," ","*","*","C","R","M"," ","&"," ","D","a","s","h","b","o","a","r","d"," ","D","e","v","e","l","o","p","m","e","n","t","*","*","\n","*"," ","*","*","3","D"," ","M","o","d","e","l","i","n","g"," ","&"," ","V","i","s","u","a","l","i","z","a","t","i","o","n","*","*","\n","*"," ","*","*","T","e","c","h","n","i","c","a","l"," ","C","o","n","s","u","l","t","a","t","i","o","n","*","*","\n","\n","E","a","c","h"," ","p","r","o","j","e","c","t"," ","i","s"," ","t","a","i","l","o","r","e","d"," ","t","o"," ","m","e","e","t"," ","s","p","e","c","i","f","i","c"," ","b","u","s","i","n","e","s","s"," ","n","e","e","d","s","."," ","W","o","u","l","d"," ","y","o","u"," ","l","i","k","e"," ","t","o"," ","d","i","s","c","u","s","s"," ","a"," ","p","a","r","t","i","c","u","l","a","r"," ","s","e","r","v","i","c","e"," ","o","r"," ","s","c","h","e","d","u","l","e"," ","a"," ","c","o","n","s","u","l","t","a","t","i","o","n","?">>

ProjectReply ==
    <<"O","n","e"," ","o","f"," ","<<",">>a","n","k","a","l","p","'","s"," ","n","o","t","a","b","l","e"," ","p","r","o","j","e","c","t","s"," ","i","s"," ","*","*","R","a","d","i","o"," ","<<",">>a","n","g","a","m","*","*"," ","-"," ","a"," ","c","o","m","p","r","e","h","e","n","s","i","v","e"," ","s","o","l","u","t","i","o","n"," ","f","o","r"," ","a"," ","D","a","l","l","a","s","-","b","a","s","e","d"," ","r","a","d","i","o"," ","s","t","a","t","i","o","n",":","\n","\n"," ","*","*","M","o","b","i","l","e"," ","A","p","p","*","*"," ","(","i","O","<<",">> ","&"," ","A","n","d","r","o","i","d",")","\n","*"," ","P","o","i","n","t","s","-","b","a","s","e","d"," ","r","e","w","a","r","d","s"," ","s","y","s","t","e","m"," ","f","o","r"," ","l","i","s","t","e","n","e","r","s","\n","*"," ","L","i","v","e"," ","p","o","d","c","a","s","t"," ","s","t","r","e","a","m","i","n","g","\n","*"," ","R","e","d","e","e","m","a","b","l","e"," ","r","e","w","a","r","d","s"," ","f","o","r"," ","e","v","e","n","t"," ","t","i","c","k","e","t","s"," ","&"," ","l","o","c","a","l"," ","d","e","a","l","s","\n","\n"," ","*","*","C","u","s","t","o","m"," ","C","R","M"," ","D","a","s","h","b","o","a","r","d","*","*","\n","*"," ","C","o","m","p","l","e","t","e"," ","c","o","n","t","e","n","t"," ","m","a","n","a","g","e","m","e","n","t","\n","*"," ","P","a","r","t","n","e","r"," ","m","a","n","a","g","e","m","e","n","t","\n","*"," ","U","s","e","r"," ","a","n","a","l","y","t","i","c","s","\n","\n","T","h","e"," ","e","n","t","i","r","e"," ","p","r","o","j","e","c","t",","," ","f","r","o","m"," ","m","o","b","i","l","e"," ","a","p","p"," ","t","o"," ","b","a","c","k","e","n","d"," ","i","n","f","r","a","s","t","r","u","c","t","u","r","e",","," ","w","a","s"," ","b","u","i","l","t"," ","e","n","t","i","r","e","l","y"," ","b","y"," ","<<",">>a","n","k","a","l","p","."," ","W","o","u","l","d"," ","y","o","u"," ","l","i","k","e"," ","t","o"," ","d","i","s","c","u","s","s"," ","h","o","w"," ","a"," ","s","i","m","i","l","a","r"," ","s","o","l","u","t","i","o","n"," ","c","o","u","l","d"," ","w","o","r","k"," ","f","o","r"," ","y","o","u","r"," ","n","e","e","d","s","?">>

DefaultReply ==
    <<"T","h","a","n","k"," ","y","o","u"," ","f","o","r"," ","y","o","u","r"," ","m","e","s","s","a","g","e","!"," ","I","'","m"," ","<<",">>a","n","k","a","l","p","'","s"," ","A","I"," ","a","s","s","i","s","t","a","n","t",","," ","a","n","d"," ","I","'","m"," ","h","e","r","e"," ","t","o"," ","h","e","l","p"," ","w","i","t","h",":","\n","\n","*"," ","I","n","f","o","r","m","a","t","i","o","n"," ","a","b","o","u","t"," ","<<",">>a","n","k","a","l","p","'","s"," ","e","x","p","e","r","i","e","n","c","e"," ","a","n","d"," ","s","k","i","l","l","s","\n","*"," ","P","r","o","j","e","c","t"," ","i","n","q","u","i","r","i","e","s"," ","a","n","d"," ","s","e","r","v","i","c","e","s","\n","*"," ","R","a","t","e","s"," ","a","n","d"," ","a","v","a","i","l","a","b","i","l","i","t","y","\n","*"," ","<<",">>c","h","e","d","u","l","i","n","g"," ","m","e","e","t","i","n","g","s","\n","\n","H","o","w"," ","c","a","n"," ","I"," ","a","s","s","i","s","t"," ","y","o","u"," ","t","o","d","a","y","?">>

\* handleMeetingCollection: the replies after each slot (chatbot.js:352-363)
NameReply(data) ==
    <<"N","i","c","e"," ","t","o"," ","m","e","e","t"," ","y","o","u",","," ">>
    \o data.name
    \o <<"!"," ","*","*","W","h","a","t"," ","i","s"," ","y","o","u","r"," ","e","m","a","i","l"," ","a","d","d","r","e","s","s","?","*","*">>

EmailReply ==
    <<"G","r","e","a","t","!"," ","*","*","W","h","e","n"," ","w","o","u","l","d"," ","y","o","u"," ","l","i","k","e"," ","t","o"," ","m","e","e","t","?","*","*","\n","\n","<<",">>a","n","k","a","l","p"," ","i","s"," ","a","v","a","i","l","a","b","l","e"," ","M","o","n","d","a","y","-","F","r","i","d","a","y",","," ","9"," ","A","M"," ","-"," ","6"," ","P","M"," ","C","<<",">>T",".","\n","P","r","e","f","e","r","r","e","d"," ","t","i","m","e","s",":"," ","1","0",":","0","0"," ","A","M",","," ","2",":","0","0"," ","P","M",","," ","o","r"," ","4",":","0","0"," ","P","M","\n","\n","P","l","e","a","s","e"," ","p","r","o","v","i","d","e"," ","y","o","u","r"," ","p","r","e","f","e","r","r","e","d"," ","d","a","t","e"," ","a","n","d"," ","t","i","m","e",".">>

InvalidEmailReply ==
    <<"T","h","a","t"," ","d","o","e","s","n","'","t"," ","a","p","p","e","a","r"," ","t","o"," ","b","e"," ","a"," ","v","a","l","i","d"," ","e","m","a","i","l"," ","a","d","d","r","e","s","s","."," ","C","o","u","l","d"," ","y","o","u"," ","p","l","e","a","s","e"," ","p","r","o","v","i","d","e"," ","a"," ","v","a","l","i","d"," ","e","m","a","i","l","?">>

DateReply ==
    <<"P","e","r","f","e","c","t","!"," ","*","*","F","i","n","a","l","l","y",","," ","p","l","e","a","s","e"," ","b","r","i","e","f","l","y"," ","d","e","s","c","r","i","b","e"," ","y","o","u","r"," ","p","r","o","j","e","c","t"," ","o","r"," ","w","h","a","t"," ","y","o","u","'","d"," ","l","i","k","e"," ","t","o"," ","d","i","s","c","u","s","s",".","*","*">>

\* submitMeetingRequest: the summary shown before the POST (chatbot.js:373-383)
SummaryReply(data) ==
    <<"T","h","a","n","k"," ","y","o","u","!"," ","H","e","r","e","'","s"," ","a"," ","s","u","m","m","a","r","y"," ","o","f"," ","y","o","u","r"," ","m","e","e","t","i","n","g"," ","r","e","q","u","e","s","t",":","\n","\n"," ","*","*","M","e","e","t","i","n","g"," ","D","e","t","a","i","l","s","*","*","\n","*"," ","*","*","N","a","m","e","*","*",":"," ">>
    \o data.name
    \o <<"\n","*"," ","*","*","E","m","a","i","l","*","*",":"," ">>
    \o data.email
    \o <<"\n","*"," ","*","*","P","r","e","f","e","r","r","e","d"," ","T","i","m","e","*","*",":"," ">>
    \o data.preferredDateTime
    \o <<"\n","*"," ","*","*","P","r","o","j","e","c","t","*","*",":"," ">>
    \o data.projectDescription
    \o <<"\n","\n","I","'","m"," ","s","e","n","d","i","n","g"," ","t","h","i","s"," ","t","o"," ","<<",">>a","n","k","a","l","p"," ","n","o","w","."," ","H","e"," ","w","i","l","l"," ","c","o","n","f","i","r","m"," ","y","o","u","r"," ","m","e","e","t","i","n","g"," ","w","i","t","h","i","n"," ","2","4"," ","h","o","u","r","s"," ","v","i","a"," ","e","m","a","i","l",".","\n","\n","I","s"," ","t","h","e","r","e"," ","a","n","y","t","h","i","n","g"," ","e","l","s","e"," ","I"," ","c","a","n"," ","h","e","l","p"," ","y","o","u"," ","w","i","t","h","?">>

\* handleMeetingCollection: the reply to a cancel word (chatbot.js:344)
CancelReply ==
    <<"N","o"," ","p","r","o","b","l","e","m"," ","-"," ","w","e"," ","c","a","n"," ","c","o","n","t","i","n","u","e"," ","c","h","a","t","t","i","n","g","."," ","H","o","w"," ","c","a","n"," ","I"," ","h","e","l","p"," ","y","o","u","?">>


\* (s || '').toLowerCase().trim()
normalizeText(s) == trim(toLowerCase(s))

\* const triggers (chatbot.js:116)
MeetingTriggers ==
    { <<"s","c","h","e","d","u","l","e">>, <<"m","e","e","t","i","n","g">>, <<"b","o","o","k">>, <<"c","a","l","l">>, <<"c","o","n","s","u","l","t","a","t","i","o","n">>, <<"a","v","a","i","l","a","b","i","l","i","t","y">>, <<"a","v","a","i","l","a","b","l","e">> }

\* const affirm (chatbot.js:120)
Affirmations ==
    { <<"y","e","s">>, <<"y","e","a","h">>, <<"y","e","p">>, <<"s","u","r","e">>, <<"p","l","e","a","s","e">>, <<"o","k">>, <<"o","k","a","y">>, <<"l","e","t","'","s"," ","d","o"," ","i","t">>, <<"l","e","t","s"," ","d","o"," ","i","t">> }

\* const botAsked (chatbot.js:121)
BookingWords == { <<"b","o","o","k"," ","a"," ","c","a","l","l">>, <<"s","c","h","e","d","u","l","e">>, <<"m","e","e","t","i","n","g">>, <<"c","o","n","s","u","l","t","a","t","i","o","n">> }

userWantsMeeting(message) ==
    LET m == normalizeText(message)
        last == normalizeText(lastBotMessage)
    IN  \/ \E t \in MeetingTriggers : includes(m, t)
        \/ m \in Affirmations /\ \E w \in BookingWords : includes(last, w)

userCancelsMeeting(message) ==
    normalizeText(message) \in { <<"c","a","n","c","e","l">>, <<"s","t","o","p">>, <<"n","e","v","e","r","m","i","n","d">>, <<"n","e","v","e","r"," ","m","i","n","d">>, <<"f","o","r","g","e","t"," ","i","t">>, <<"n","o">> }

\* a plausible slip: every text is taken for an address
validateEmail_anyText(email) == TRUE

\* /^[^\s@]+@[^\s@]+\.[^\s@]+$/.test(email): no whitespace, one "@" behind at
\* least one character, and behind it a "." with a character on either side
validateEmail(email) ==
    LET ats == {i \in DOMAIN email : email[i] = "@"}
    IN  /\ \A i \in DOMAIN email : email[i] \notin WhitespaceChars
        /\ Cardinality(ats) = 1
        /\ \A at \in ats :
              at > 1 /\ \E d \in (at + 2)..(Len(email) - 1) : email[d] = "."

\* the reply shown when /api/chat cannot be reached, and whether the branch
\* taken calls startMeetingCollection (chatbot.js:220-327)
getFallbackResponse(message) ==
    LET lowerMessage == toLowerCase(message)
        has(words) == \E w \in words : includes(lowerMessage, w)
    IN  IF has({<<"e","x","p","e","r","i","e","n","c","e">>, <<"b","a","c","k","g","r","o","u","n","d">>, <<"a","b","o","u","t">>})
        THEN [reply |-> ExperienceReply, startsMeeting |-> FALSE]
        ELSE IF has({<<"r","a","t","e">>, <<"c","o","s","t">>, <<"p","r","i","c","e">>, <<"c","h","a","r","g","e">>})
        THEN [reply |-> RatesReply, startsMeeting |-> FALSE]
        ELSE IF has({<<"s","c","h","e","d","u","l","e">>, <<"m","e","e","t","i","n","g">>, <<"c","a","l","l">>, <<"b","o","o","k">>, <<"a","v","a","i","l","a","b","l","e">>})
        THEN [reply |-> ScheduleReply, startsMeeting |-> TRUE]
        ELSE IF has({<<"s","k","i","l","l">>, <<"t","e","c","h","n","o","l","o","g","y">>, <<"t","e","c","h"," ","s","t","a","c","k">>, <<"w","h","a","t"," ","c","a","n">>})
        THEN [reply |-> SkillsReply, startsMeeting |-> FALSE]
        ELSE IF has({<<"c","o","n","t","a","c","t">>, <<"r","e","a","c","h">>, <<"p","h","o","n","e">>, <<"e","m","a","i","l">>})
        THEN [reply |-> ContactReply, startsMeeting |-> FALSE]
        ELSE IF has({<<"s","e","r","v","i","c","e">>, <<"o","f","f","e","r">>, <<"d","o"," ","y","o","u"," ","d","o">>, <<"h","e","l","p"," ","w","i","t","h">>})
        THEN [reply |-> ServicesReply, startsMeeting |-> FALSE]
        ELSE IF has({<<"p","r","o","j","e","c","t">>, <<"w","o","r","k">>, <<"p","o","r","t","f","o","l","i","o">>})
        THEN [reply |-> ProjectReply, startsMeeting |-> FALSE]
        ELSE [reply |-> DefaultReply, startsMeeting |-> FALSE]

\* submitMeetingRequest up to its await: the summary is shown, the flag
\* cleared and the POST to /api/schedule-meeting sent with meetingData
submitMeetingRequest(data) ==
    [isCollectingMeetingInfo |-> FALSE, meetingData |-> data,
     lastBotMessage |-> SummaryReply(data),
     posts |-> << [endpoint |-> "schedule", body |-> data, turn |-> 0] >>]

\* handleMeetingCollection(message): the values it leaves in the flag, the
\* slots and lastBotMessage, and the fetch calls it makes
handleMeetingCollection(message) ==
    IF userCancelsMeeting(message)
    THEN [isCollectingMeetingInfo |-> FALSE, meetingData |-> NoMeetingData,
          lastBotMessage |-> CancelReply, posts |-> <<>>]
    ELSE IF meetingData.name = <<>>
    THEN LET data == [meetingData EXCEPT !.name = message]
         IN  [isCollectingMeetingInfo |-> TRUE, meetingData |-> data,
              lastBotMessage |-> NameReply(data), posts |-> <<>>]
    ELSE IF meetingData.email = <<>>
    THEN IF validateEmail(message)
         THEN [isCollectingMeetingInfo |-> TRUE,
               meetingData |-> [meetingData EXCEPT !.email = message],
               lastBotMessage |-> EmailReply, posts |-> <<>>]
         ELSE [isCollectingMeetingInfo |-> TRUE, meetingData |-> meetingData,
               lastBotMessage |-> InvalidEmailReply, posts |-> <<>>]
    ELSE IF meetingData.preferredDateTime = <<>>
    THEN [isCollectingMeetingInfo |-> TRUE,
          meetingData |-> [meetingData EXCEPT !.preferredDateTime = message],
          lastBotMessage |-> DateReply, posts |-> <<>>]
    ELSE IF meetingData.projectDescription = <<>>
    THEN submitMeetingRequest([meetingData EXCEPT !.projectDescription = message])
    ELSE [isCollectingMeetingInfo |-> TRUE, meetingData |-> meetingData,
          lastBotMessage |-> lastBotMessage, posts |-> <<>>]

ClientHistoryLimit == 20

\* conversationHistory.slice(-20)
recentHistory(history) ==
    SubSeq(history,
           IF Len(history) > ClientHistoryLimit THEN Len(history) - ClientHistoryLimit + 1 ELSE 1,
           Len(history))

\* a plausible slip: the test of isCollectingMeetingInfo is missing
sendMessageBranch_noCollecting(message) ==
    IF message = <<>> THEN "empty"
    ELSE IF ~isCollectingMeetingInfo /\ userWantsMeeting(message) THEN "start"
    ELSE "ai"

\* which way sendMessage goes with the trimmed text of the input field
\* (chatbot.js:139, 147, 154)
sendMessageBranch(message) ==
    IF message = <<>> THEN "empty"
    ELSE IF ~isCollectingMeetingInfo /\ userWantsMeeting(message) THEN "start"
    ELSE IF isCollectingMeetingInfo THEN "collect"
    ELSE "ai"

MaxSends == 5

\* sendMessage is examined with fewer than MaxTurns turns in conversationHistory
MaxTurns == 2

\* what the visitor types: small talk, a request for a call, a consent (also
\* used as a name and a date), a cancel word, an address, and blanks
TypedTexts == { <<"h","i">>, <<"b","o","o","k"," ","a"," ","c","a","l","l">>, <<"y","e","s">>, <<"c","a","n","c","e","l">>, <<"a","@","b",".","c","o">>, <<" "," ">> }

\* the values of data.response
Responses == { <<"S","u","r","e",".">>, <<"S","h","a","l","l"," ","w","e"," ","s","c","h","e","d","u","l","e"," ","a"," ","m","e","e","t","i","n","g","?">> }

InitClient ==
    /\ ServerInit
    /\ call = [fn |-> "none", pc |-> "returned"]
    /\ ret = <<>>

\* sendMessage, up to its await (or its return); call keeps the text typed
SendMessage ==
    /\ sends < MaxSends
    /\ sends' = sends + 1
    /\ \E typed \in TypedTexts :
          LET message == trim(typed)
              branch == sendMessageBranch(message)
          IN
          /\ call' = [fn |-> "sendMessage", pc |-> "returned", value |-> typed]
          /\  IF branch = "empty"
              THEN UNCHANGED <<conversationHistory, lastBotMessage, isCollectingMeetingInfo,
                               meetingData, fetches>>
              ELSE IF branch = "start"
              THEN \* startMeetingCollection()
                   /\ isCollectingMeetingInfo' = TRUE
                   /\ meetingData' = NoMeetingData
                   /\ lastBotMessage' = MeetingGreeting
                   /\ UNCHANGED <<conversationHistory, fetches>>
              ELSE IF branch = "collect"
              THEN LET after == handleMeetingCollection(message)
                   IN  /\ isCollectingMeetingInfo' = after.isCollectingMeetingInfo
                       /\ meetingData' = after.meetingData
                       /\ lastBotMessage' = after.lastBotMessage
                       /\ fetches' = fetches \o after.posts
                       /\ UNCHANGED conversationHistory
              ELSE \* the turn is pushed, then sendToAI calls fetch
                   /\ Len(conversationHistory) < MaxTurns
                   /\ conversationHistory' =
                         Append(conversationHistory, [role |-> "user", content |-> message])
                   /\ fetches' = Append(fetches,
                         [endpoint |-> "chat",
                          body |-> [message |-> message,
                                    history |-> recentHistory(conversationHistory')],
                          turn |-> Len(conversationHistory')])
                   /\ UNCHANGED <<lastBotMessage, isCollectingMeetingInfo, meetingData>>
    /\ BackendUnchanged
    /\ UNCHANGED ret

\* the fetches left when the one at position i has settled
settled(i) == SubSeq(fetches, 1, i - 1) \o SubSeq(fetches, i + 1, Len(fetches))

\* the fetch of sendToAI settles: with a response, which is pushed and
\* shown; or it fails (or the status is not ok) and the fallback is shown
ChatFetchSettles(i) ==
    /\ fetches[i].endpoint = "chat"
    /\ fetches' = settled(i)
    /\ \/ \E response \in Responses :
             /\ conversationHistory' =
                   Append(conversationHistory, [role |-> "assistant", content |-> response])
             /\ lastBotMessage' = response
             /\ UNCHANGED <<isCollectingMeetingInfo, meetingData>>
       \/ LET fallback == getFallbackResponse(fetches[i].body.message)
          IN  /\ lastBotMessage' = fallback.reply
              /\ isCollectingMeetingInfo' = (isCollectingMeetingInfo \/ fallback.startsMeeting)
              /\ meetingData' = IF fallback.startsMeeting THEN NoMeetingData ELSE meetingData
              /\ UNCHANGED conversationHistory
    /\ UNCHANGED sends
    /\ BackendUnchanged
    /\ UNCHANGED <<call, ret>>

\* the fetch of submitMeetingRequest settles: whatever the answer, only the
\* console is written to
ScheduleFetchSettles(i) ==
    /\ fetches[i].endpoint = "schedule"
    /\ fetches' = settled(i)
    /\ UNCHANGED <<conversationHistory, lastBotMessage, isCollectingMeetingInfo,
                   meetingData, sends>>
    /\ BackendUnchanged
    /\ UNCHANGED <<call, ret>>

NextClient ==
    \/ SendMessage
    \/ \E i \in DOMAIN fetches : ChatFetchSettles(i)
    \/ \E i \in DOMAIN fetches : ScheduleFetchSettles(i)

SpecClient == InitClient /\ [][NextClient]_vars

\* ---------------------------------------------------------------------
\* A chat turn from the page to the completion call, under SpecClient
\* ---------------------------------------------------------------------

\* the history of a request body as the handler receives it: JSON keeps
\* role and content, and content is a string
receivedHistory(history) ==
    [i \in DOMAIN history |-> turn(history[i].role, TRUE, history[i].content)]

\* the requests of sendToAI that have not settled
PendingChats == {i \in DOMAIN fetches : fetches[i].endpoint = "chat"}

\* the input POST /api/chat forwards for the pending request i
ForwardedInput(i) ==
    chatInput(receivedHistory(fetches[i].body.history), fetches[i].body.message)

\* the conversation as it was before the user turn of request i
TurnsBefore(i) == SubSeq(conversationHistory, 1, fetches[i].turn - 1)

IsSuffix(s, t) ==
    /\ Len(s) <= Len(t)
    /\ s = SubSeq(t, Len(t) - Len(s) + 1, Len(t))

\* C25: the input forwarded for a chat turn of the page ends with the new
\* user message, and what precedes it is the end of the conversation before
\* that message: the message is not also the last turn of the forwarded history
C25_MessageForwardedOnce ==
    \A i \in PendingChats :
        LET input == ForwardedInput(i)
            n == Len(input)
        IN  /\ input[n] = [role |-> "user", content |-> fetches[i].body.message]
            /\ IsSuffix(SubSeq(input, 1, n - 1), TurnsBefore(i))

\* C26: when the response of a chat request is pushed onto
\* conversationHistory, the turn before it is the user turn that request
\* carried: every assistant turn immediately follows the user turn it answers
C26_HistoryPairing ==
    [][\A i \in PendingChats :
          (/\ fetches' = settled(i)
           /\ Len(conversationHistory') = Len(conversationHistory) + 1)
          => fetches[i].turn = Len(conversationHistory)]_vars

\* ---------------------------------------------------------------------
\* The order of the two emails, under SpecMail
\* ---------------------------------------------------------------------

\* Mailgun is configured and the body holds the endpoint's four fields
MailRequestComplete ==
    /\ mailRequestReceived
    /\ call.hasMailgun
    /\ \A f \in requiredFields(call.fn) : call.body[f] = [type |-> "string", value |-> <<"x">>]

\* C27: for a complete contact or meeting request the notification to the
\* owner is sent first, the confirmation to the requester is attempted only
\* once the notification was accepted, success is answered only after both
\* were accepted, and a failed send is answered with 500 with no further
\* email attempted
C27_EmailOrder ==
    MailRequestComplete =>
        /\ call.pc = "sendingOwner" => ret.sent = <<>> /\ ret.status = 0
        /\ call.pc = "sendingRequester" => ret.sent = <<"owner">> /\ ret.status = 0
        /\ (ret.success \/ ret.status = 200) =>
              /\ ret.sent = <<"owner", "requester">>
              /\ ret.success /\ ret.status = 200
        /\ call.pc = "responded" =>
              \/ ret.status = 200
              \/ ret.status = 500 /\ ret.sent \in {<<>>, <<"owner">>}
        /\ ret.status # 0 => call.pc = "responded"

\* the notification of a complete meeting request was accepted, the
\* confirmation failed, and the request was answered with 500
C27_Witness ==
    /\ MailRequestComplete
    /\ call.fn = "schedule-meeting"
    /\ call.pc = "responded"
    /\ ret.sent = <<"owner">>
    /\ ret.status = 500

\* ---------------------------------------------------------------------
\* The meeting flow of the page, under SpecClient
\* ---------------------------------------------------------------------

\* the step is a sendMessage with a text that is not blank
Typed == sends' = sends + 1 /\ trim(call'.value) # <<>>

\* the message that step hands on
TypedMessage == trim(call'.value)

SlotOrder == <<"name", "email", "preferredDateTime", "projectDescription">>

\* the position in SlotOrder of the first empty slot (5: none is empty)
FirstEmpty(data) ==
    IF \A k \in DOMAIN SlotOrder : data[SlotOrder[k]] # <<>> THEN Len(SlotOrder) + 1
    ELSE CHOOSE k \in DOMAIN SlotOrder :
            /\ data[SlotOrder[k]] = <<>>
            /\ \A j \in 1..(k - 1) : data[SlotOrder[j]] # <<>>

\* text "@" text "." text, without whitespace or a second "@"
IsEmailAddress(text) ==
    \E at \in DOMAIN text, dot \in DOMAIN text :
        /\ 1 < at /\ at + 1 < dot /\ dot < Len(text)
        /\ text[at] = "@" /\ text[dot] = "."
        /\ \A i \in DOMAIN text :
              /\ text[i] \notin {" ", "\t", "\n", "\r"}
              /\ text[i] = "@" => i = at

\* the requests to /api/schedule-meeting among fs
SchedulePosts(fs) == {i \in DOMAIN fs : fs[i].endpoint = "schedule"}

\* C28: while collecting, a cancel word clears the slots, ends collection and
\* posts nothing; a text that is no valid email, at the email step, changes
\* neither the slots nor the flag; any other message fills the first empty
\* slot in the order name, email, date/time, description; the POST is issued
\* by the message that fills the fourth slot and by no other step, with the
\* four slots non-empty and a valid email, and the flag is cleared then;
\* nothing but a message of the visitor changes the slots or the flag
C28_MeetingFlow ==
    [][/\ Cardinality(SchedulePosts(fetches')) > Cardinality(SchedulePosts(fetches))
            => Typed /\ isCollectingMeetingInfo
       /\ ~Typed => meetingData' = meetingData /\ isCollectingMeetingInfo' = isCollectingMeetingInfo
       /\ Typed /\ isCollectingMeetingInfo =>
            LET k == FirstEmpty(meetingData)
            IN  IF userCancelsMeeting(TypedMessage)
                THEN /\ meetingData' = NoMeetingData
                     /\ ~isCollectingMeetingInfo'
                     /\ fetches' = fetches
                ELSE IF k = 2 /\ ~IsEmailAddress(TypedMessage)
                THEN /\ meetingData' = meetingData
                     /\ isCollectingMeetingInfo'
                     /\ fetches' = fetches
                ELSE /\ k \in DOMAIN SlotOrder
                     /\ meetingData' = [meetingData EXCEPT ![SlotOrder[k]] = TypedMessage]
                     /\ IF k = Len(SlotOrder)
                        THEN /\ ~isCollectingMeetingInfo'
                             /\ Len(fetches') = Len(fetches) + 1
                             /\ SubSeq(fetches', 1, Len(fetches)) = fetches
                             /\ fetches'[Len(fetches')].endpoint = "schedule"
                             /\ fetches'[Len(fetches')].body = meetingData'
                             /\ \A f \in DOMAIN meetingData' : meetingData'[f] # <<>>
                             /\ IsEmailAddress(meetingData'.email)
                        ELSE /\ isCollectingMeetingInfo'
                             /\ fetches' = fetches]_vars

\* a flow was completed: its POST is pending with the four slots filled, and
\* collection has ended
C28_Witness ==
    /\ ~isCollectingMeetingInfo
    /\ \E i \in SchedulePosts(fetches) :
          /\ fetches[i].body = meetingData
          /\ \A f \in DOMAIN meetingData : meetingData[f] # <<>>
          /\ IsEmailAddress(meetingData.email)

\* the requests to /api/chat among fs
ChatPosts(fs) == {i \in DOMAIN fs : fs[i].endpoint = "chat"}

\* C29: a message that starts the meeting flow, and any message received
\* while isCollectingMeetingInfo is true, appends nothing to
\* conversationHistory and issues no request to /api/chat
C29_MeetingLeavesConversation ==
    [][Typed /\ (isCollectingMeetingInfo \/ isCollectingMeetingInfo') =>
          /\ conversationHistory' = conversationHistory
          /\ Cardinality(ChatPosts(fetches')) = Cardinality(ChatPosts(fetches))
          /\ Len(fetches') - Len(fetches) = Cardinality(SchedulePosts(fetches')) - Cardinality(SchedulePosts(fetches))]_vars

\* after a conversation with the assistant the flow was started and a name
\* given; the conversation is as it was
C29_Witness ==
    /\ isCollectingMeetingInfo
    /\ meetingData.name # <<>>
    /\ Len(conversationHistory) = 2
    /\ conversationHistory[2].role = "assistant"
    /\ ChatPosts(fetches) = {}

(***************************************************************************)
(* SpecResolveId: getActiveProfile applied also to a store whose author    *)
(* wrote an id field into a persona record                                 *)
(***************************************************************************)

\* {"default": "ana", "profiles": {"ana": {"id": "bob", "name": "Ana Lee"},
\*                                 "bob": {"name": "Bob Ray"}}}
StoreOwnId ==
    [default |-> <<"a","n","a">>,
     profiles |-> << [key |-> <<"a","n","a">>, value |-> [id |-> <<"b","o","b">>, name |-> <<"A","n","a"," ","L","e","e">>]],
                     [key |-> <<"b","o","b">>, value |-> [name |-> <<"B","o","b"," ","R","a","y">>]] >>]

IdStores == ResolveStores \cup {StoreOwnId}

InitResolveId ==
    /\ LEGACY_PROFILE = <<>>
    /\ PROFILES \in IdStores
    /\ KNOWLEDGE_CHUNKS = <<>>
    /\ KNOWLEDGE_LAST_LOADED_AT = 0
    /\ NoProcess
    /\ disk = EmptyDisk
    /\ \E id \in RequestedIds, m \in Messages :
          call = [fn |-> "getActiveProfile", pc |-> "called", profileId |-> id, userMessage |-> m]
    /\ ret = <<>>

SpecResolveId == InitResolveId /\ [][NextResolve]_vars

\* the key getActiveProfile looks the persona up with: the requested id, else
\* the inferred one, else the default (found: one of them names a property)
ResolvedKey ==
    LET requested == normalizeProfileId(call.profileId)
        inferred == inferProfileIdFromMessage(call.userMessage)
        def == IF normalizeProfileId(PROFILES.default) # <<>>
               THEN normalizeProfileId(PROFILES.default) ELSE DefaultId
        has(key) == key # <<>> /\ getProperty(PROFILES.profiles, key).truthy
    IN  IF has(requested) THEN [found |-> TRUE, key |-> requested]
        ELSE IF ~inferred.isNull /\ has(inferred.pid) THEN [found |-> TRUE, key |-> inferred.pid]
        ELSE IF has(def) THEN [found |-> TRUE, key |-> def]
        ELSE [found |-> FALSE, key |-> <<>>]

\* C30: when getActiveProfile returns a persona taken from the store, the id
\* of the result is the key the record is stored under, whatever fields the
\* record holds
C30_IdIsStoreKey ==
    getActiveProfileReturned /\ ResolvedKey.found /\ ResolvedKey.key \in StoreIds =>
        ret.id = ResolvedKey.key
====
